---- MODULE Spec2Model ----
(***************************************************************************)
(* A model of douban-to-imdb: the exporter (src/douban_to_csv.py) and the  *)
(* importer (src/csv_to_imdb.py).                                          *)
(*                                                                         *)
(* The module holds several specifications, one per component:             *)
(*   SpecFetch      make_request, the retrying fetcher                     *)
(*   SpecPaginator  url_generator                                          *)
(*   SpecImdb       get_imdb_id                                            *)
(*   SpecExport     export / get_info, the page loop and the date cutoff   *)
(*   SpecCsv        csv.writer in export against csv.reader in mark        *)
(*   SpecImport     the importer's command line and its row loop           *)
(*   SpecImportTwice  the importer run twice against the same site         *)
(*   SpecMain       the exporter process: flags, cookies, browser session  *)
(*   SpecChallenge  handle_login_challenge                                 *)
(*   SpecLogin      login of the importer; SpecLoginFair adds fairness     *)
(* Each specification moves only its own variables.                        *)
(***************************************************************************)
EXTENDS Integers, Sequences, FiniteSets, TLC

VARIABLES
    \* ---- make_request (douban_to_csv.py 462-611)
    mr_pc,            \* "call" | "loop" | "done"
    mr_url_douban,    \* "douban.com" in url
    mr_arg_selenium,  \* the use_selenium argument as passed by the caller
    mr_driver0,       \* DRIVER when the call was made
    use_selenium,     \* the local use_selenium
    attempt,          \* the loop variable of `for attempt in range(MAX_RETRIES)`
    mr_result,        \* what the call gave its caller
    trace,            \* what the call did, in order
    DRIVER,           \* the global browser handle: "None" | "visible" | "headless"
    IS_LOGGED_IN,     \* the global login flag
    cookie_file,      \* COOKIE_FILE on disk: "absent" | "present"
    \* ---- url_generator (douban_to_csv.py 239-306)
    pg_pc,            \* "call" | "done"
    pg_first,         \* what the fetch of the first collection page gave
    pg_urls,          \* list(url_generator(user_id))
    \* ---- get_imdb_id (douban_to_csv.py 636-693)
    id_pc,            \* "call" | "done"
    id_page,          \* what the fetch of the detail page gave
    id_result,        \* the value get_imdb_id returned
    \* ---- export / get_info (douban_to_csv.py 309-359, 696-835)
    ex_pc,            \* "start" | "pages" | "done"
    START_DATE,       \* the cutoff date, as a day number
    IS_OVER,          \* the global flag set at the cutoff
    urls,             \* list(url_generator(user_id))
    page_no,          \* the page the loop of export is at (1-based)
    info,             \* the records collected so far: [title, rating, imdb]
    shown,            \* the items of the pages fetched so far, in page order
    ex_log,           \* the fetches and delays of the run, in order
    movie_csv,        \* movie.csv: whether it was written, and its rows
    \* ---- movie.csv written and read back (douban_to_csv.py 353-359,
    \*      csv_to_imdb.py 138-140)
    rt_pc,            \* "start" | "written" | "read"
    rt_info,          \* the records handed to writer.writerows
    rt_file,          \* the characters of movie.csv
    rt_content,       \* the rows csv.reader gives
    \* ---- the importer (csv_to_imdb.py 102-311)
    im_pc,            \* "main" | "rows" | "done" | "usage" | "no_csv"
    argv,             \* sys.argv[1], when there is one
    is_unmark,        \* the mode mark was called with
    rating_ajust,     \* the adjustment mark was called with
    driver,           \* "none" | "open" | "quit"
    lines,            \* the rows of movie.csv
    line_no,          \* the row the loop of mark is at (1-based)
    success_marked,
    success_unmarked,
    can_not_found,    \* the four lists hold the places of the rows
    already_marked,
    never_marked,
    error_movies,
    im_log,           \* what was done for each row, in order
    site,             \* the user's rating on IMDb of the title of each row
    run_no,           \* 1 for the first run of the importer, 2 for the second
    first_log,        \* im_log as the first run left it
    \* ---- the exporter process (douban_to_csv.py 838-902); it shares the
    \*      globals DRIVER, IS_LOGGED_IN and cookie_file with make_request
    main_pc,          \* "start" | "setup" | "export" | "finally" | "exited"
    args,             \* the flags --visible, --manual-login, --no-cache
    exit_by,          \* how the process came to its end
    sessions_created, \* the browser sessions created so far
    sessions_quit,    \* the calls of DRIVER.quit() so far
    main_log,         \* what the process did, in order: sessions, fetches,
                      \* prompts, reads and writes of the cookie file
    \* ---- one call of handle_login_challenge (douban_to_csv.py 174-236); it
    \*      shares the globals DRIVER, IS_LOGGED_IN and cookie_file
    hl_pc,            \* "call" | "returned"
    hl_page,          \* the markers in driver.page_source at the call
    hl_page2,         \* the markers in the page fetched again after the login
    hl_steps,         \* what the handler did, in order
    hl_return,        \* "pending" | "True" | "False" | "KeyboardInterrupt"
    \* ---- login of the importer (csv_to_imdb.py 37-99)
    lg_pc,            \* "start" | "waiting" | "checking" | "returned" | "raised"
    lg_url,           \* the address the browser shows
    lg_current_url,   \* current_url, the address kept before the loop
    lg_waited,        \* the polls of the wait under way
    lg_seen           \* the addresses the operator went to, in order

fetchVars == <<mr_pc, mr_url_douban, mr_arg_selenium, mr_driver0, use_selenium,
               attempt, mr_result, trace, DRIVER, IS_LOGGED_IN, cookie_file>>

pagVars == <<pg_pc, pg_first, pg_urls>>

imdbVars == <<id_pc, id_page, id_result>>

exportVars == <<ex_pc, START_DATE, IS_OVER, urls, page_no, info, shown, ex_log, movie_csv>>

csvVars == <<rt_pc, rt_info, rt_file, rt_content>>

importVars == <<im_pc, argv, is_unmark, rating_ajust, driver, lines, line_no,
                success_marked, success_unmarked, can_not_found, already_marked,
                never_marked, error_movies, im_log, site, run_no, first_log>>

mainVars == <<main_pc, args, exit_by, sessions_created, sessions_quit, main_log>>

challengeVars == <<hl_pc, hl_page, hl_page2, hl_steps, hl_return>>

\* The steps that wait for the operator.
loginVars == <<lg_pc, lg_url, lg_current_url, lg_waited, lg_seen>>

interactiveVars == <<challengeVars, loginVars>>

\* The variables of one call of make_request, without the globals.
fetchCallVars == <<mr_pc, mr_url_douban, mr_arg_selenium, mr_driver0, use_selenium,
                   attempt, mr_result, trace>>

vars == <<fetchVars, pagVars, imdbVars, exportVars, csvVars, importVars, mainVars,
         interactiveVars>>

\* What each component leaves alone.
othersThanFetch == <<pagVars, imdbVars, exportVars, csvVars, importVars, mainVars,
    interactiveVars>>
othersThanPaginator == <<fetchVars, imdbVars, exportVars, csvVars, importVars, mainVars,
    interactiveVars>>
othersThanImdb == <<fetchVars, pagVars, exportVars, csvVars, importVars, mainVars,
    interactiveVars>>
othersThanExport == <<fetchVars, pagVars, imdbVars, csvVars, importVars, mainVars,
    interactiveVars>>
othersThanCsv == <<fetchVars, pagVars, imdbVars, exportVars, importVars, mainVars,
    interactiveVars>>
othersThanImport == <<fetchVars, pagVars, imdbVars, exportVars, csvVars, mainVars,
    interactiveVars>>
othersThanMain == <<fetchCallVars, pagVars, imdbVars, exportVars, csvVars, importVars,
    interactiveVars>>
othersThanChallenge == <<fetchCallVars, DRIVER, pagVars, imdbVars, exportVars, csvVars,
    importVars, mainVars, loginVars>>
othersThanLogin == <<fetchVars, pagVars, imdbVars, exportVars, csvVars, importVars,
    mainVars, challengeVars>>

\* ------------------------------------------------------------------------
\* Program constants
\* ------------------------------------------------------------------------
MAX_RETRIES == 3
RETRY_DELAY == 5
JITTER_MIN == 1
JITTER_MAX == 5
REFRESH_WAIT == 5

\* random.uniform(1, 5) is sampled at the two ends of its interval.
Jitters == {JITTER_MIN, JITTER_MAX}

\* ------------------------------------------------------------------------
\* Generic helpers
\* ------------------------------------------------------------------------
\* The strings of at most n characters of an alphabet, as sequences.
Strings(alphabet, n) == UNION {[1..k -> alphabet] : k \in 0..n}

\* ========================================================================
\* make_request
\* ========================================================================

\* What one attempt on the HTTP path can meet (requests.get, 533-585).
\*   "200"               status 200
\*   "403"               status 403
\*   "status"            any other status
\*   "ssl_retry200"      SSLError, the immediate retry answers 200
\*   "ssl_retry_status"  SSLError, the immediate retry answers another status
\*   "ssl_retry_exc"     SSLError, the immediate retry raises
\*   "proxy"             ProxyError
\*   "ConnectionError_named"  ConnectionError whose str() holds "ConnectionError"
\*                            (e.g. "... Caused by NewConnectionError(...)")
\*   "ConnectionError_plain"  ConnectionError whose str() does not
\*                            (e.g. "('Connection aborted.', RemoteDisconnected(...))")
\*   "Timeout"           requests Timeout ("Read timed out.")
\*   "unexpected"        any other Exception
\*   "interrupt"         KeyboardInterrupt (not an Exception)
HttpOutcomes ==
    {"200", "403", "status", "ssl_retry200", "ssl_retry_status", "ssl_retry_exc",
     "proxy", "ConnectionError_named", "ConnectionError_plain", "Timeout",
     "unexpected", "interrupt"}

\* What one attempt on the browser path can meet (491-519, 586-597).
\*   "setup_fail"        setup_driver cannot start Chrome: sys.exit(1)
\*   "browser_exc"       TimeoutException / WebDriverException (driver.get, the
\*                       wait, or the connection-error page of 503-505); the
\*                       refresh of 592 works
\*   "browser_exc_norefresh"  the same, and DRIVER.refresh() raises too
\*   "page"              a page with no challenge and no logged-in marker
\*   "page_logged_in"    a page with a logged-in marker
\*   "challenge_cleared" challenge page; after the operator's login the marker is gone
\*   "challenge_cleared_nosave"  the same, and pickling the cookies fails
\*   "challenge_still"   challenge page; the marker is still there afterwards
\*   "challenge_refetch_exc"  challenge page; driver.get(url) after the prompt raises
\*   "challenge_exc"     handle_login_challenge raises before it prompts
BrowserOutcomes ==
    {"setup_fail", "browser_exc", "browser_exc_norefresh", "page", "page_logged_in",
     "challenge_cleared", "challenge_cleared_nosave", "challenge_still",
     "challenge_refetch_exc", "challenge_exc", "unexpected", "interrupt"}

\* An attempt that failed with a transport error: a requests exception on the
\* HTTP path, a Timeout/WebDriver exception on the browser path.
TransportOutcomes ==
    {"ssl_retry_status", "ssl_retry_exc", "proxy", "ConnectionError_named",
     "ConnectionError_plain", "Timeout", "browser_exc", "browser_exc_norefresh"}

\* str(e) of the RequestException holds the text "ConnectionError" (583).
TextHasConnectionError(out) == out = "ConnectionError_named"

Event(ev, k, path, out, secs) ==
    [ev |-> ev, k |-> k, path |-> path, out |-> out, secs |-> secs]

\* 483-485: a douban.com address is fetched with the browser from the start.
ForceSelenium_ignoreUrl(url_douban, arg_selenium) == arg_selenium
ForceSelenium(url_douban, arg_selenium) == arg_selenium \/ url_douban

\* 489: `if use_selenium or DRIVER`.
UseBrowser_flagOnly(use_sel, drv) == use_sel
UseBrowser(use_sel, drv) == use_sel \/ drv # "None"

\* 487: `for attempt in range(MAX_RETRIES)`.
LoopRuns_offByOne(k) == k < MAX_RETRIES + 1
LoopRuns(k) == k < MAX_RETRIES

\* 509, 600: `if attempt < MAX_RETRIES - 1`.
HasRetryLeft(k) == k < MAX_RETRIES - 1

\* 511, 601: RETRY_DELAY * (2 ** attempt) + random.uniform(1, 5).
BackoffDelay_flat(k, jitter) == RETRY_DELAY + jitter
BackoffDelay(k, jitter) == RETRY_DELAY * (2 ^ k) + jitter

\* 548-550, 576-578, 583-585: the failures after which the HTTP path is left.
Escalates(out, k, use_sel) ==
    \/ out = "403"
    \/ out = "proxy" /\ HasRetryLeft(k) /\ ~use_sel
    \/ TextHasConnectionError(out) /\ ~use_sel

\* The events of the end of an iteration that fell out of the try statement
\* (599-603): one backoff sleep unless this was the last attempt.
BackoffEvents(k, jitter) ==
    IF HasRetryLeft(k)
    THEN <<Event("backoff", k, "-", "-", BackoffDelay(k, jitter))>>
    ELSE <<>>

\* make_request is entered: the caller's address and flag, the DRIVER as it is.
MakeRequestCall ==
    /\ UNCHANGED othersThanFetch
    /\ mr_pc = "call"
    /\ use_selenium' = ForceSelenium(mr_url_douban, mr_arg_selenium)
    /\ attempt' = 0
    /\ mr_pc' = "loop"
    /\ UNCHANGED <<mr_url_douban, mr_arg_selenium, mr_driver0, mr_result, trace,
                   DRIVER, IS_LOGGED_IN, cookie_file>>

\* One iteration on the HTTP path (521-585, 596-603).
AttemptHttp ==
    /\ UNCHANGED othersThanFetch
    /\ mr_pc = "loop"
    /\ LoopRuns(attempt)
    /\ ~UseBrowser(use_selenium, DRIVER)
    /\ \E out \in HttpOutcomes, jitter \in Jitters :
         LET ev == Event("attempt", attempt, "http", out, 0) IN
         IF out \in {"200", "ssl_retry200"}
         THEN \* 542-543, 559-560: return response
              /\ trace' = Append(trace, ev)
              /\ mr_result' = "Response"
              /\ mr_pc' = "done"
              /\ UNCHANGED <<use_selenium, attempt>>
         ELSE IF out = "interrupt"
         THEN /\ trace' = Append(trace, ev)
              /\ mr_result' = "KeyboardInterrupt"
              /\ mr_pc' = "done"
              /\ UNCHANGED <<use_selenium, attempt>>
         ELSE /\ trace' = Append(trace, ev) \o BackoffEvents(attempt, jitter)
              /\ use_selenium' = (use_selenium \/ Escalates(out, attempt, use_selenium))
              /\ attempt' = attempt + 1
              /\ UNCHANGED <<mr_result, mr_pc>>
    /\ UNCHANGED <<mr_url_douban, mr_arg_selenium, mr_driver0, DRIVER,
                   IS_LOGGED_IN, cookie_file>>

\* handle_login_challenge (174-236) on the page the browser shows: the value it
\* returns.
HandleLoginChallenge(out) ==
    out \in {"page", "page_logged_in", "challenge_cleared", "challenge_cleared_nosave"}

\* Whether handle_login_challenge asked the operator (207).
Prompts(out) ==
    out \in {"challenge_cleared", "challenge_cleared_nosave", "challenge_still",
             "challenge_refetch_exc"}

\* One iteration on the browser path (489-519, 586-603).
AttemptBrowser ==
    /\ UNCHANGED othersThanFetch
    /\ mr_pc = "loop"
    /\ LoopRuns(attempt)
    /\ UseBrowser(use_selenium, DRIVER)
    /\ \E out \in BrowserOutcomes, jitter \in Jitters :
         LET ev == Event("attempt", attempt, "browser", out, 0)
             prompt == IF Prompts(out)
                       THEN <<Event("prompt", attempt, "-", "-", 0)>> ELSE <<>>
         IN
         \* setup_driver creates the browser only when there is none (70-71)
         /\ out = "setup_fail" => DRIVER = "None"
         /\ IF out = "setup_fail"
            THEN \* 136-139: sys.exit(1); SystemExit is no Exception
                 /\ trace' = Append(trace, ev)
                 /\ mr_result' = "SystemExit"
                 /\ mr_pc' = "done"
                 /\ UNCHANGED <<attempt, DRIVER, IS_LOGGED_IN, cookie_file>>
            ELSE /\ DRIVER' = (IF DRIVER = "None" THEN "visible" ELSE DRIVER)
                 /\ IF out = "interrupt"
                    THEN /\ trace' = Append(trace, ev)
                         /\ mr_result' = "KeyboardInterrupt"
                         /\ mr_pc' = "done"
                         /\ UNCHANGED <<attempt, IS_LOGGED_IN, cookie_file>>
                    ELSE IF out \in {"browser_exc", "browser_exc_norefresh"}
                    THEN \* 586-595 then 599-603
                         /\ trace' = Append(trace, ev)
                               \o (IF out = "browser_exc"
                                   THEN <<Event("wait", attempt, "-", "-", REFRESH_WAIT)>>
                                   ELSE <<>>)
                               \o BackoffEvents(attempt, jitter)
                         /\ attempt' = attempt + 1
                         /\ UNCHANGED <<mr_result, mr_pc, IS_LOGGED_IN, cookie_file>>
                    ELSE IF out = "unexpected"
                    THEN \* 596-603
                         /\ trace' = Append(trace, ev) \o BackoffEvents(attempt, jitter)
                         /\ attempt' = attempt + 1
                         /\ UNCHANGED <<mr_result, mr_pc, IS_LOGGED_IN, cookie_file>>
                    ELSE IF HandleLoginChallenge(out)
                    THEN \* 519: return the page
                         /\ trace' = Append(trace, ev) \o prompt
                         /\ IS_LOGGED_IN' = (IS_LOGGED_IN \/ out # "page")
                         /\ cookie_file' = (IF out = "challenge_cleared"
                                            THEN "present" ELSE cookie_file)
                         /\ mr_result' = "ResponseLike"
                         /\ mr_pc' = "done"
                         /\ UNCHANGED attempt
                    ELSE \* 508-516: the challenge was not passed
                         /\ UNCHANGED <<IS_LOGGED_IN, cookie_file>>
                         /\ IF HasRetryLeft(attempt)
                            THEN /\ trace' = Append(trace, ev) \o prompt
                                       \o <<Event("backoff", attempt, "-", "-",
                                                  BackoffDelay(attempt, jitter))>>
                                 /\ attempt' = attempt + 1
                                 /\ UNCHANGED <<mr_result, mr_pc>>
                            ELSE /\ trace' = Append(trace, ev) \o prompt
                                 /\ mr_result' = "None"
                                 /\ mr_pc' = "done"
                                 /\ UNCHANGED attempt
    /\ UNCHANGED <<mr_url_douban, mr_arg_selenium, mr_driver0, use_selenium>>

\* The loop is over (605-611): return None.
GiveUp ==
    /\ UNCHANGED othersThanFetch
    /\ mr_pc = "loop"
    /\ ~LoopRuns(attempt)
    /\ mr_result' = "None"
    /\ mr_pc' = "done"
    /\ UNCHANGED <<mr_url_douban, mr_arg_selenium, mr_driver0, use_selenium,
                   attempt, trace, DRIVER, IS_LOGGED_IN, cookie_file>>

InitFetch ==
    /\ mr_pc = "call"
    /\ mr_url_douban \in BOOLEAN
    /\ mr_arg_selenium \in BOOLEAN
    /\ DRIVER \in {"None", "visible"}
    /\ mr_driver0 = DRIVER
    /\ use_selenium = mr_arg_selenium
    /\ attempt = 0
    /\ mr_result = "pending"
    /\ trace = <<>>
    /\ IS_LOGGED_IN \in BOOLEAN
    /\ cookie_file \in {"absent", "present"}

\* The fetcher at rest, for the specifications of the other components.
IdleFetch ==
    /\ mr_pc = "done"
    /\ mr_url_douban = TRUE
    /\ mr_arg_selenium = FALSE
    /\ DRIVER = "None"
    /\ mr_driver0 = "None"
    /\ use_selenium = FALSE
    /\ attempt = 0
    /\ mr_result = "pending"
    /\ trace = <<>>
    /\ IS_LOGGED_IN = FALSE
    /\ cookie_file = "absent"

NextFetch ==
    \/ MakeRequestCall
    \/ AttemptHttp
    \/ AttemptBrowser
    \/ GiveUp

\* ========================================================================
\* url_generator
\* ========================================================================

\* The characters of a page-link text: two decimal digits, a character that
\* is no digit (as in the "next page" link), and a digit character that is
\* not decimal: str.isdigit() accepts it and int() raises ValueError on it.
LinkChars == {"0", "2", ">", "SUPERSCRIPT_TWO"}

MaxLinkLen == 2
MaxLinks == 2

LinkTexts == Strings(LinkChars, MaxLinkLen)

\* str.isdigit() of one character, and whether int() reads it.
IsDigitChar(c) == c \in {"0", "1", "2", "3", "4", "5", "6", "7", "8", "9", "SUPERSCRIPT_TWO"}
IsDecimalChar(c) == c \in {"0", "1", "2", "3", "4", "5", "6", "7", "8", "9"}

DigitValue(c) ==
    CASE c = "0" -> 0 [] c = "1" -> 1 [] c = "2" -> 2 [] c = "3" -> 3 [] c = "4" -> 4
      [] c = "5" -> 5 [] c = "6" -> 6 [] c = "7" -> 7 [] c = "8" -> 8 [] c = "9" -> 9

\* link.text.isdigit() (289): not empty, every character a digit character.
IsDigit(text) == Len(text) > 0 /\ \A i \in DOMAIN text : IsDigitChar(text[i])

\* int(link.text) (290) reads the text; otherwise it raises ValueError.
IntReads(text) == Len(text) > 0 /\ \A i \in DOMAIN text : IsDecimalChar(text[i])

RECURSIVE ParseInt(_)
ParseInt(text) ==
    IF text = <<>> THEN 0
    ELSE 10 * ParseInt(SubSeq(text, 1, Len(text) - 1)) + DigitValue(text[Len(text)])

\* The address of 255-259, with no start parameter, and the address of 300.
FirstUrl == [has_start |-> FALSE, start |-> 0]

\* 299: start_index = (page - 1) * 15.
PageStart_fromPage(page) == page * 15
PageStart(page) == (page - 1) * 15

PageUrl(page) == [has_start |-> TRUE, start |-> PageStart(page)]

\* 287-292: the loop over the page links; -1 when int() raises.
RECURSIVE MaxPageLoop(_, _, _)
MaxPageLoop(links, i, max_page) ==
    IF i > Len(links) THEN max_page
    ELSE IF IsDigit(links[i])
         THEN IF ~IntReads(links[i]) THEN -1
              ELSE LET page_num == ParseInt(links[i]) IN
                   MaxPageLoop(links, i + 1,
                               IF page_num > max_page THEN page_num ELSE max_page)
         ELSE MaxPageLoop(links, i + 1, max_page)

\* list(url_generator(user_id)) for a first page `first` (262-306).
UrlList(first) ==
    IF ~first.fetched THEN <<FirstUrl>>                       \* 263-266
    ELSE IF ~first.paginator THEN <<FirstUrl>>                \* 273-276
    ELSE IF first.links = <<>> THEN <<FirstUrl>>              \* 281-284
    ELSE LET max_page == MaxPageLoop(first.links, 1, 1) IN
         IF max_page = -1 THEN <<FirstUrl>>                   \* 303-306
         ELSE [page \in 1..max_page |-> PageUrl(page)]        \* 297-301

\* What make_request and the parse of the first collection page can give.
FirstPages ==
    {[fetched |-> FALSE, paginator |-> FALSE, links |-> <<>>],
     [fetched |-> TRUE, paginator |-> FALSE, links |-> <<>>]}
    \cup {[fetched |-> TRUE, paginator |-> TRUE, links |-> l] :
             l \in Strings(LinkTexts, MaxLinks)}

UrlGenerator ==
    /\ UNCHANGED othersThanPaginator
    /\ pg_pc = "call"
    /\ pg_urls' = UrlList(pg_first)
    /\ pg_pc' = "done"
    /\ UNCHANGED pg_first

InitPaginator ==
    /\ pg_pc = "call"
    /\ pg_first \in FirstPages
    /\ pg_urls = <<>>

IdlePaginator ==
    /\ pg_pc = "done"
    /\ pg_first = [fetched |-> FALSE, paginator |-> FALSE, links |-> <<>>]
    /\ pg_urls = <<>>

NextPaginator ==
    \/ UrlGenerator


\* ========================================================================
\* get_imdb_id
\* ========================================================================

\* An optional text: Python's None, or a str as the sequence of its characters.
None == [some |-> FALSE, text |-> <<>>]
Some(text) == [some |-> TRUE, text |-> text]

\* The characters of the texts of a detail page: a letter, a digit and, in
\* the text node after a label, white space.
IdChars == {"t", "1"}
TextChars == {" ", "t", "1"}

MaxLabelLen == 3
MaxRestLen == 2
MaxTokenLen == 4

IsSpace(c) == c = " "

\* str.strip() (672).
RECURSIVE LStrip(_)
LStrip(text) ==
    IF text # <<>> /\ IsSpace(text[1]) THEN LStrip(Tail(text)) ELSE text

RECURSIVE RStrip(_)
RStrip(text) ==
    IF text # <<>> /\ IsSpace(text[Len(text)])
    THEN RStrip(SubSeq(text, 1, Len(text) - 1)) ELSE text

Strip(text) == RStrip(LStrip(text))

\* str.startswith("tt") (673, 686).
StartsWithTT(text) == Len(text) >= 2 /\ text[1] = "t" /\ text[2] = "t"

\* The href of the anchor that soup.select_one('a[href*="imdb.com/title/tt"]')
\* gives (677): an address that holds "imdb.com/title/tt", followed by `rest`.
ImdbHref(rest) == <<"https://www.", "imdb.com/title/", "t", "t">> \o rest

\* 668-674: the text node after the span labelled IMDb, stripped, when it
\* starts with "tt".  page.label is that text node: None when there is no
\* such span or what follows it is no text node.
LabelStrategy(page) ==
    IF page.label.some /\ page.label.text # <<>>
    THEN LET imdb_id == Strip(page.label.text) IN
         IF StartsWithTT(imdb_id) THEN Some(imdb_id) ELSE None
    ELSE None

\* The digits that \d+ takes from position i on (greedy).
RECURSIVE DigitRun(_, _)
DigitRun(text, i) ==
    IF i <= Len(text) /\ IsDecimalChar(text[i])
    THEN <<text[i]>> \o DigitRun(text, i + 1)
    ELSE <<>>

\* re.search(r'(tt\d+)', href) from position i on (680): the leftmost match.
RECURSIVE SearchTtDigits(_, _)
SearchTtDigits(text, i) ==
    IF i + 2 > Len(text) THEN None
    ELSE IF text[i] = "t" /\ text[i + 1] = "t" /\ IsDecimalChar(text[i + 2])
         THEN Some(<<"t", "t">> \o DigitRun(text, i + 2))
         ELSE SearchTtDigits(text, i + 1)

\* 677-682: the anchor whose href holds "imdb.com/title/tt".
HrefStrategy(page) ==
    IF page.anchor.some THEN SearchTtDigits(ImdbHref(page.anchor.text), 1) ELSE None

\* info_section.stripped_strings (685): the texts of the info section,
\* stripped, the empty ones left out.
StrippedStrings(page) ==
    (IF page.label.some /\ Strip(page.label.text) # <<>>
     THEN <<Strip(page.label.text)>> ELSE <<>>)
    \o (IF page.token.some /\ Strip(page.token.text) # <<>>
        THEN <<Strip(page.token.text)>> ELSE <<>>)

\* 686: text.startswith("tt") and len(text) > 3 and text[2:].isdigit().
LooksLikeImdbId(text) ==
    StartsWithTT(text) /\ Len(text) > 3 /\ IsDigit(SubSeq(text, 3, Len(text)))

\* 685-687: the first text of the info section that looks like an id.
RECURSIVE TokenScan(_, _)
TokenScan(strings, i) ==
    IF i > Len(strings) THEN None
    ELSE IF LooksLikeImdbId(strings[i]) THEN Some(strings[i])
         ELSE TokenScan(strings, i + 1)

TokenStrategy(page) == TokenScan(StrippedStrings(page), 1)

\* 665-690: the three strategies in the order of the code.
Strategies_tokenBeforeHref(page) ==
    LET s1 == LabelStrategy(page) IN
    IF s1.some THEN s1
    ELSE LET s3 == TokenStrategy(page) IN
         IF s3.some THEN s3 ELSE HrefStrategy(page)
Strategies(page) ==
    LET s1 == LabelStrategy(page) IN
    IF s1.some THEN s1
    ELSE LET s2 == HrefStrategy(page) IN
         IF s2.some THEN s2 ELSE TokenStrategy(page)

\* get_imdb_id(douban_url) for the detail page `page` (649-693).
GetImdbIdOf(page) ==
    IF ~page.fetched THEN None              \* 652-654
    ELSE IF ~page.has_info THEN None        \* 661-663
    ELSE Strategies(page)

OptionalTexts(alphabet, n) == {None} \cup {Some(t) : t \in Strings(alphabet, n)}

\* What make_request and the parse of a detail page can give.
DetailPages ==
    {[fetched |-> FALSE, has_info |-> FALSE, label |-> None, anchor |-> None,
      token |-> None]}
    \cup {[fetched |-> TRUE, has_info |-> FALSE, label |-> None, anchor |-> a,
           token |-> None] : a \in OptionalTexts(IdChars, MaxRestLen)}
    \cup {[fetched |-> TRUE, has_info |-> TRUE, label |-> l, anchor |-> a, token |-> t] :
             l \in OptionalTexts(TextChars, MaxLabelLen),
             a \in OptionalTexts(IdChars, MaxRestLen),
             t \in OptionalTexts(IdChars, MaxTokenLen)}

GetImdbId ==
    /\ UNCHANGED othersThanImdb
    /\ id_pc = "call"
    /\ id_result' = GetImdbIdOf(id_page)
    /\ id_pc' = "done"
    /\ UNCHANGED id_page

InitImdb ==
    /\ id_pc = "call"
    /\ id_page \in DetailPages
    /\ id_result = None

IdleImdb ==
    /\ id_pc = "done"
    /\ id_page = [fetched |-> FALSE, has_info |-> FALSE, label |-> None,
                  anchor |-> None, token |-> None]
    /\ id_result = None

NextImdb ==
    \/ GetImdbId

\* ========================================================================
\* export and get_info
\* ========================================================================

MaxItems == 2
MaxDate == 3

\* get_rating (614-633) of the class "rating<text>-t": 0 stands for None.
GetRating(rating_class) ==
    IF ~rating_class.some THEN 0                                  \* 624-625
    ELSE IF ~IntReads(rating_class.text) THEN 0                   \* 632-633
    ELSE LET rating_digit == ParseInt(rating_class.text) IN
         IF 1 <= rating_digit /\ rating_digit <= 5 THEN rating_digit ELSE 0

\* Detail pages of the items of a collection page: one without an id, one
\* whose IMDb anchor gives the id, one whose IMDb label is followed by a text
\* that starts with "tt".
DetailNoId ==
    [fetched |-> TRUE, has_info |-> TRUE, label |-> None, anchor |-> None, token |-> None]
DetailHref ==
    [fetched |-> TRUE, has_info |-> TRUE, label |-> None, anchor |-> Some(<<"1">>),
     token |-> None]
DetailLabel ==
    [fetched |-> TRUE, has_info |-> TRUE, label |-> Some(<<" ", "t", "t">>),
     anchor |-> None, token |-> None]

\* 793: date.today(), later than every comment date.
Today == MaxDate + 1

\* The rating class and the detail page of the items that parse.
OkKinds ==
    {[rating_class |-> Some(<<"2">>), detail |-> DetailHref],
     [rating_class |-> Some(<<"2", "0">>), detail |-> DetailLabel]}

\* The item blocks of a collection page.  shape: "ok" parses; "no_title" has
\* no title element (738-742); "no_link" has no link (745-748); "bad_date"
\* has a date text in none of the three formats (814-821); "no_date" has no
\* date element and is given the date of the run (790-793).  date is the day
\* number of the comment date.
Items ==
    {[shape |-> "ok", date |-> d, rating_class |-> k.rating_class, detail |-> k.detail] :
        d \in 1..MaxDate, k \in OkKinds}
    \cup {[shape |-> sh, date |-> d, rating_class |-> None, detail |-> DetailNoId] :
             sh \in {"no_title", "no_link"}, d \in 1..MaxDate}
    \cup {[shape |-> "bad_date", date |-> 0, rating_class |-> None, detail |-> DetailNoId]}
    \cup {[shape |-> "no_date", date |-> Today, rating_class |-> None, detail |-> DetailNoId]}

HasDate(item) == item.shape # "bad_date"

\* The smallest comment date among `items`, Today + 1 when there is none.
RECURSIVE OldestDate(_)
OldestDate(items) ==
    IF items = <<>> THEN Today + 1
    ELSE LET rest == OldestDate(Tail(items)) IN
         IF HasDate(Head(items)) /\ Head(items).date < rest THEN Head(items).date ELSE rest

\* The collection is listed newest first: the dates of the items of a page
\* strictly decrease, and all are older than `before`, the oldest date listed
\* so far.  The pages of at most n items.
RECURSIVE PageContents(_, _)
PageContents(before, n) ==
    IF n = 0 THEN {<<>>}
    ELSE {<<>>} \cup
         UNION {{<<item>> \o rest :
                    rest \in PageContents(IF HasDate(item) THEN item.date ELSE before, n - 1)} :
                item \in {x \in Items : HasDate(x) => x.date < before}}

\* 815: comment_date <= START_DATE.
AtCutoff_strict(date, start_date) == date < start_date
AtCutoff(date, start_date) == date <= start_date

\* The loop of get_info without its break: the flag is set and the items
\* that follow are processed.
RECURSIVE GetInfoLoop_noBreak(_, _, _, _, _)
GetInfoLoop_noBreak(items, i, base, start_date, acc) ==
    IF i > Len(items) THEN acc
    ELSE LET item == items[i] IN
         IF item.shape \in {"no_title", "no_link", "bad_date"}
         THEN GetInfoLoop_noBreak(items, i + 1, base, start_date, acc)
         ELSE IF AtCutoff(item.date, start_date)
         THEN GetInfoLoop_noBreak(items, i + 1, base, start_date,
                  [acc EXCEPT !.over = TRUE, !.log = Append(@, "over")])
         ELSE GetInfoLoop_noBreak(items, i + 1, base, start_date,
                  [acc EXCEPT
                      !.info = Append(@, [title |-> base + i,
                                          rating |-> GetRating(item.rating_class),
                                          imdb |-> GetImdbIdOf(item.detail)]),
                      !.log = Append(@, "fetch_detail")])

\* 731-833: the loop of get_info over the item blocks, from item i on.
\* `base` is the number of items listed on the pages before; the title of a
\* record is written as the place of its item in the run.
RECURSIVE GetInfoLoop(_, _, _, _, _)
GetInfoLoop(items, i, base, start_date, acc) ==
    IF i > Len(items) THEN acc
    ELSE LET item == items[i] IN
         IF item.shape \in {"no_title", "no_link", "bad_date"}
         THEN GetInfoLoop(items, i + 1, base, start_date, acc)      \* continue
         ELSE IF AtCutoff(item.date, start_date)
         THEN [acc EXCEPT !.over = TRUE,                            \* 816-818: break
                          !.log = Append(@, "over")]
         ELSE GetInfoLoop(items, i + 1, base, start_date,
                  [acc EXCEPT
                      !.info = Append(@, [title |-> base + i,
                                          rating |-> GetRating(item.rating_class),
                                          imdb |-> GetImdbIdOf(item.detail)]),
                      !.log = Append(@, "fetch_detail")])

\* The collection pages the run may begin with.
ExportFirstPages ==
    {[fetched |-> FALSE, paginator |-> FALSE, links |-> <<>>],
     [fetched |-> TRUE, paginator |-> TRUE, links |-> << <<"2">>, <<">">> >>]}

\* 321-323: the page addresses.
ExportBegin ==
    /\ UNCHANGED othersThanExport
    /\ ex_pc = "start"
    /\ \E first \in ExportFirstPages : urls' = UrlList(first)
    /\ page_no' = 1
    /\ ex_pc' = "pages"
    /\ UNCHANGED <<START_DATE, IS_OVER, info, shown, ex_log, movie_csv>>

\* 326-343: one iteration of the loop of export, get_info (711-835) included.
\* page is None: make_request gave nothing (715-716); a page without items
\* gives None as well (726-728).
ScrapePage ==
    /\ UNCHANGED othersThanExport
    /\ ex_pc = "pages"
    /\ page_no <= Len(urls)
    /\ ~IS_OVER
    /\ \E fetched \in BOOLEAN, items \in PageContents(OldestDate(shown), MaxItems) :
         /\ ~fetched => items = <<>>
         /\ LET got == GetInfoLoop(items, 1, Len(shown), START_DATE,
                                   [info |-> <<>>, over |-> FALSE, log |-> <<"fetch_page">>])
            IN
            /\ info' = info \o got.info                               \* 335-336
            /\ IS_OVER' = got.over
            /\ ex_log' = ex_log \o got.log
                           \o (IF got.over THEN <<>> ELSE <<"page_delay">>)  \* 339-341
         /\ shown' = shown \o items
    /\ page_no' = page_no + 1
    /\ UNCHANGED <<ex_pc, START_DATE, urls, movie_csv>>

\* 326-329, 345-359: the loop is over; movie.csv is written when there is a
\* record.
ExportFinish ==
    /\ UNCHANGED othersThanExport
    /\ ex_pc = "pages"
    /\ page_no > Len(urls) \/ IS_OVER
    /\ movie_csv' = IF info = <<>> THEN movie_csv
                    ELSE [written |-> TRUE, rows |-> info]
    /\ ex_pc' = "done"
    /\ UNCHANGED <<START_DATE, IS_OVER, urls, page_no, info, shown, ex_log>>

InitExport ==
    /\ ex_pc = "start"
    /\ START_DATE \in 0..Today
    /\ IS_OVER = FALSE
    /\ urls = <<>>
    /\ page_no = 1
    /\ info = <<>>
    /\ shown = <<>>
    /\ ex_log = <<>>
    /\ movie_csv = [written |-> FALSE, rows |-> <<>>]

IdleExport ==
    /\ ex_pc = "done"
    /\ START_DATE = 0
    /\ IS_OVER = FALSE
    /\ urls = <<>>
    /\ page_no = 1
    /\ info = <<>>
    /\ shown = <<>>
    /\ ex_log = <<>>
    /\ movie_csv = [written |-> FALSE, rows |-> <<>>]

NextExport ==
    \/ ExportBegin
    \/ ScrapePage
    \/ ExportFinish

\* ========================================================================
\* movie.csv: csv.writer of export, csv.reader of mark
\* ========================================================================

MaxTitleLen == 3
MaxRecords == 2

Delimiter == ","
QuoteChar == "\""
LF == "\n"
CR == "\r"

\* str(n) of a rating, one digit.
Str(n) ==
    CASE n = 0 -> <<"0">> [] n = 1 -> <<"1">> [] n = 2 -> <<"2">> [] n = 3 -> <<"3">>
      [] n = 4 -> <<"4">> [] n = 5 -> <<"5">>

\* What csv.writer writes for a value: None as the empty text, an int by str.
RatingField(rating) == IF rating = 0 THEN <<>> ELSE Str(rating)
OptionalField(value) == IF value.some THEN value.text ELSE <<>>

\* The three fields of a record, as texts.
FieldsOf(record) ==
    <<record.title, RatingField(record.rating), OptionalField(record.imdb)>>

\* QUOTE_MINIMAL with lineterminator='\n' (357): a field is quoted when it
\* holds the delimiter, the quote character or a character of the line
\* terminator.
NeedsQuotes(field) ==
    \E i \in DOMAIN field : field[i] \in {Delimiter, QuoteChar, LF}

\* doublequote: every quote character of the field is written twice.
RECURSIVE DoubleQuotes(_)
DoubleQuotes(field) ==
    IF field = <<>> THEN <<>>
    ELSE (IF Head(field) = QuoteChar THEN <<QuoteChar, QuoteChar>> ELSE <<Head(field)>>)
         \o DoubleQuotes(Tail(field))

WriteField(field) ==
    IF NeedsQuotes(field) THEN <<QuoteChar>> \o DoubleQuotes(field) \o <<QuoteChar>>
    ELSE field

\* writer.writerow: the fields joined by the delimiter, then the terminator.
RECURSIVE JoinFields(_)
JoinFields(fields) ==
    IF Len(fields) = 1 THEN WriteField(fields[1])
    ELSE WriteField(Head(fields)) \o <<Delimiter>> \o JoinFields(Tail(fields))

WriteRow(record) == JoinFields(FieldsOf(record)) \o <<LF>>

\* writer.writerows (358).
RECURSIVE WriteRows(_)
WriteRows(records) ==
    IF records = <<>> THEN <<>>
    ELSE WriteRow(Head(records)) \o WriteRows(Tail(records))

\* open(file_name, 'r', encoding='utf-8') of mark (138) gives no newline
\* argument: reading translates "\r\n" and "\r" into "\n".  export opens the
\* file with newline='' (356) and writes the characters as they are.
RECURSIVE UniversalNewlines(_)
UniversalNewlines(chars) ==
    IF chars = <<>> THEN <<>>
    ELSE IF Head(chars) = CR
         THEN IF Len(chars) >= 2 /\ chars[2] = LF
              THEN <<LF>> \o UniversalNewlines(Tail(Tail(chars)))
              ELSE <<LF>> \o UniversalNewlines(Tail(chars))
         ELSE <<Head(chars)>> \o UniversalNewlines(Tail(chars))

\* The end-of-line mark the reader feeds itself after each line.
EOL == "EOL"

\* parse_save_field: the field collected so far becomes a field of the row.
SaveField(st) == [st EXCEPT !.fields = Append(@, st.field), !.field = <<>>]
AddChar(st, c) == [st EXCEPT !.field = Append(@, c)]
AfterNewline(c) == IF c = EOL THEN "START_RECORD" ELSE "EAT_CRNL"

\* parse_process_char of csv.reader, for the excel dialect: delimiter ',',
\* quote character '"', doublequote, no escape character, not strict.
ProcessChar(st, c) ==
    LET state == IF st.state = "START_RECORD" /\ c \notin {EOL, LF, CR}
                 THEN "START_FIELD" ELSE st.state
    IN
    CASE state = "START_RECORD" ->
           IF c = EOL THEN st ELSE [st EXCEPT !.state = "EAT_CRNL"]
      [] state = "START_FIELD" ->
           IF c \in {LF, CR, EOL}
           THEN [SaveField(st) EXCEPT !.state = AfterNewline(c)]
           ELSE IF c = QuoteChar THEN [st EXCEPT !.state = "IN_QUOTED_FIELD"]
           ELSE IF c = Delimiter THEN [SaveField(st) EXCEPT !.state = "START_FIELD"]
           ELSE [AddChar(st, c) EXCEPT !.state = "IN_FIELD"]
      [] state = "IN_FIELD" ->
           IF c \in {LF, CR, EOL}
           THEN [SaveField(st) EXCEPT !.state = AfterNewline(c)]
           ELSE IF c = Delimiter THEN [SaveField(st) EXCEPT !.state = "START_FIELD"]
           ELSE AddChar(st, c)
      [] state = "IN_QUOTED_FIELD" ->
           IF c = EOL THEN st
           ELSE IF c = QuoteChar THEN [st EXCEPT !.state = "QUOTE_IN_QUOTED_FIELD"]
           ELSE AddChar(st, c)
      [] state = "QUOTE_IN_QUOTED_FIELD" ->
           IF c = QuoteChar THEN [AddChar(st, c) EXCEPT !.state = "IN_QUOTED_FIELD"]
           ELSE IF c = Delimiter THEN [SaveField(st) EXCEPT !.state = "START_FIELD"]
           ELSE IF c \in {LF, CR, EOL}
           THEN [SaveField(st) EXCEPT !.state = AfterNewline(c)]
           ELSE [AddChar(st, c) EXCEPT !.state = "IN_FIELD"]
      [] state = "EAT_CRNL" ->
           IF c \in {LF, CR} THEN st
           ELSE IF c = EOL THEN [st EXCEPT !.state = "START_RECORD"]
           ELSE [st EXCEPT !.state = "ERROR"]
      [] state = "ERROR" -> st

\* Reader_iternext gives the row when a line ends in START_RECORD, and
\* begins the next row with no field.
EndOfLine(st) ==
    LET fed == ProcessChar(st, EOL) IN
    IF fed.state = "START_RECORD"
    THEN [fed EXCEPT !.rows = Append(@, fed.fields), !.fields = <<>>, !.field = <<>>]
    ELSE fed

\* At the end of the file, a row under way is given as it stands.
EndOfFile(st) ==
    IF st.state = "ERROR" THEN st
    ELSE IF st.field # <<>> \/ st.state = "IN_QUOTED_FIELD"
    THEN [SaveField(st) EXCEPT !.rows = Append(@, Append(st.fields, st.field)),
                               !.state = "START_RECORD"]
    ELSE IF st.fields # <<>>
    THEN [st EXCEPT !.rows = Append(@, st.fields), !.state = "START_RECORD"]
    ELSE st

\* The rows of `chars`, whose lines end after each "\n".
RECURSIVE ReadChars(_, _, _)
ReadChars(chars, i, st) ==
    IF i > Len(chars) THEN EndOfFile(st)
    ELSE LET fed == ProcessChar(st, chars[i]) IN
         ReadChars(chars, i + 1, IF chars[i] = LF THEN EndOfLine(fed) ELSE fed)

\* list(csv.reader(file)) over the file as the text layer gives it.
ReadRows(chars) ==
    ReadChars(UniversalNewlines(chars), 1,
              [state |-> "START_RECORD", field |-> <<>>, fields |-> <<>>, rows |-> <<>>])

\* title_elem.text.strip() (739): no white space at either end.
TitleChars == {"a", Delimiter, QuoteChar, LF, CR}
Titles ==
    {t \in Strings(TitleChars, MaxTitleLen) :
        t = <<>> \/ (t[1] \notin {LF, CR} /\ t[Len(t)] \notin {LF, CR})}

Records ==
    {[title |-> t, rating |-> r, imdb |-> id] :
        t \in Titles, r \in {0, 5}, id \in {None, Some(<<"t", "t", "1">>)}}

\* The record written beside the one that varies.
PlainRecord == [title |-> <<"a">>, rating |-> 5, imdb |-> None]

\* The lists export writes: never empty (346-351).  One record of the list
\* varies, the others are PlainRecord.
RecordLists ==
    UNION {{[i \in 1..n |-> IF i = k THEN r ELSE PlainRecord] : k \in 1..n, r \in Records} :
           n \in 1..MaxRecords}

\* 356-358: export writes movie.csv.
WriteCsv ==
    /\ UNCHANGED othersThanCsv
    /\ rt_pc = "start"
    /\ rt_file' = WriteRows(rt_info)
    /\ rt_pc' = "written"
    /\ UNCHANGED <<rt_info, rt_content>>

\* 138-140: mark reads movie.csv.
ReadCsv ==
    /\ UNCHANGED othersThanCsv
    /\ rt_pc = "written"
    /\ rt_content' = ReadRows(rt_file)
    /\ rt_pc' = "read"
    /\ UNCHANGED <<rt_info, rt_file>>

InitCsv ==
    /\ rt_pc = "start"
    /\ rt_info \in RecordLists
    /\ rt_file = <<>>
    /\ rt_content = [state |-> "START_RECORD", field |-> <<>>, fields |-> <<>>, rows |-> <<>>]

IdleCsv ==
    /\ rt_pc = "read"
    /\ rt_info = <<>>
    /\ rt_file = <<>>
    /\ rt_content = [state |-> "START_RECORD", field |-> <<>>, fields |-> <<>>, rows |-> <<>>]

NextCsv ==
    \/ WriteCsv
    \/ ReadCsv

\* ========================================================================
\* The importer: the command line and the loop of mark
\* ========================================================================

MaxLines == 2

\* int(sys.argv[1]) (306) of a text with an optional minus sign.
IntOfArg(text) ==
    IF text # <<>> /\ Head(text) = "-" THEN 0 - ParseInt(Tail(text)) ELSE ParseInt(text)

\* 303: the adjustments the command line accepts.
AcceptedAdjustments_upToThree ==
    {<<"-", "2">>, <<"-", "1">>, <<"0">>, <<"1">>, <<"2">>, <<"3">>}
AcceptedAdjustments == {<<"-", "2">>, <<"-", "1">>, <<"0">>, <<"1">>, <<"2">>}

\* sys.argv[1]: absent, "unmark", the accepted adjustments, and two others.
Arguments ==
    {None, Some(<<"u", "n", "m", "a", "r", "k">>)}
    \cup {Some(a) : a \in AcceptedAdjustments}
    \cup {Some(<<"3">>), Some(<<"+", "1">>)}

\* 150: the rating given on IMDb for a Douban rating.
MovieRate_adjustFirst(rating, adjust) == (rating + adjust) * 2
MovieRate(rating, adjust) == rating * 2 + adjust

\* The rows of movie.csv: title, rating, IMDb id; rows that are short of
\* fields; and a row without a title.
RatingTexts == {<<>>, <<"1">>, <<"2">>, <<"3">>, <<"4">>, <<"5">>, <<"a">>}
ImdbTexts == {<<>>, <<"t", "t", "1">>, <<"1">>, <<"t", "t", "a">>}
Lines ==
    {<< <<"a">>, r, i >> : r \in RatingTexts, i \in ImdbTexts}
    \cup {<<>>, << <<"a">> >>, << <<"a">>, <<"5">> >>}
    \cup {<< <<>>, <<"5">>, <<"t", "t", "1">> >>}

PlainLine == << <<"a">>, <<"5">>, <<"t", "t", "1">> >>

\* One row of the file varies, the others are PlainLine.
LineLists ==
    {<<>>} \cup
    UNION {{[i \in 1..n |-> IF i = k THEN l ELSE PlainLine] : k \in 1..n, l \in Lines} :
           n \in 1..MaxLines}

\* What the browser does for a row: the search box never shows; the rating
\* element is missing (NoSuchElementException) or looking for it raises
\* something else; the rating button fails; then, to mark, the star fails
\* or its confirmation fails, and to unmark, the delete button fails; or
\* all of it succeeds.
UiOutcomes(unmark) ==
    {"search_raise", "elem_missing", "elem_raise", "button_raise", "action_ok"}
    \cup (IF unmark THEN {"delete_raise"} ELSE {"star_raise", "confirm_raise"})

\* The steps on the site that were begun for a row, by what the browser did:
\* the search (161-167), the look for the rating element (172-178), the
\* rating button (191-196), the delete button (200-206), the star (216-224)
\* and its confirmation (227-232).
UiSteps(unmark, ui) ==
    CASE ui = "search_raise" -> <<"search">>
      [] ui \in {"elem_missing", "elem_raise"} -> <<"search", "look">>
      [] ui = "button_raise" -> <<"search", "look", "open">>
      [] ui = "delete_raise" -> <<"search", "look", "open", "delete">>
      [] ui = "star_raise" -> <<"search", "look", "open", "star">>
      [] ui = "confirm_raise" -> <<"search", "look", "open", "star", "confirm">>
      [] ui = "action_ok" ->
           IF unmark THEN <<"search", "look", "open", "delete">>
           ELSE <<"search", "look", "open", "star", "confirm">>

\* 288-311: the entry point.
ImportMain ==
    /\ UNCHANGED othersThanImport
    /\ im_pc = "main"
    /\ \E csv_exists \in BOOLEAN :
         IF ~csv_exists
         THEN /\ im_pc' = "no_csv"                                   \* 290-293
              /\ UNCHANGED <<is_unmark, rating_ajust, driver>>
         ELSE IF argv.some /\ argv.text = <<"u", "n", "m", "a", "r", "k">>
         THEN /\ im_pc' = "rows"                                     \* 296-298
              /\ is_unmark' = TRUE
              /\ rating_ajust' = 0 - 1
              /\ driver' = "open"
         ELSE IF argv.some /\ argv.text \notin AcceptedAdjustments
         THEN /\ im_pc' = "usage"                                    \* 301-305
              /\ UNCHANGED <<is_unmark, rating_ajust, driver>>
         ELSE /\ im_pc' = "rows"                                     \* 306-311
              /\ is_unmark' = FALSE
              /\ rating_ajust' = IF argv.some THEN IntOfArg(argv.text) ELSE 0 - 1
              /\ driver' = "open"
    /\ UNCHANGED <<argv, lines, line_no, success_marked, success_unmarked, can_not_found,
                   already_marked, never_marked, error_movies, im_log, site, run_no,
                   first_log>>

\* 253: time.sleep(2) is the last statement of the try body: it is reached
\* when the body neither leaves by `continue` (144, 159) nor raises to the
\* handler of 254.
ReachesPause_always(exit) == TRUE
ReachesPause(exit) == exit = "falls_through"

\* What the loop of mark records for the row at line_no.
Done(outcome, has_rate, rate, steps, slept) ==
    [line |-> line_no, outcome |-> outcome, has_rate |-> has_rate, movie_rate |-> rate,
     searched |-> steps # <<>>, steps |-> steps, slept |-> slept,
     page |-> "other", rated |-> FALSE]

\* The page the search gives: "title" is the page of the title with the
\* div hero-rating-bar__user-rating and its button; "bare_title" is the page
\* of the title without that div; "other" is any other page.  The page of a
\* title holds the div hero-rating-bar__user-rating__score when the user has
\* rated the title.
PageKinds == {"title", "bare_title", "other"}
HasUserRating(page) == page = "title"
HasUserRatingScore(page, rated) == page \in {"title", "bare_title"} /\ rated

\* 175-180: the element find_element looks for.
LookedFor(unmark, page, rated) ==
    IF unmark THEN HasUserRatingScore(page, rated) ELSE HasUserRating(page)

\* What the browser can do on a page: NoSuchElementException is raised
\* exactly when the element looked for is not there, and the rating button
\* (193-196) is found only under hero-rating-bar__user-rating.
CanHappen(unmark, page, rated, ui) ==
    /\ ui \in {"search_raise", "elem_raise"} => page = "other"
    /\ ui = "elem_missing" => ~LookedFor(unmark, page, rated)
    /\ ui \in {"button_raise", "delete_raise", "star_raise", "confirm_raise", "action_ok"}
          => LookedFor(unmark, page, rated)
    /\ ui \in {"delete_raise", "star_raise", "confirm_raise", "action_ok"}
          => HasUserRating(page)

NotRated == [rated |-> FALSE, value |-> 0]

\* 257: `if len(line) >= 3 and line[0] and line[2]`.
Reportable_always(line) == TRUE
Reportable(line) == Len(line) >= 3 /\ line[1] # <<>> /\ line[3] # <<>>

\* 254-258: the handler of the outer try.
LineException(line, has_rate, rate, steps) ==
    /\ error_movies' = IF Reportable(line)
                       THEN Append(error_movies, line_no) ELSE error_movies
    /\ im_log' = Append(im_log, Done("exception", has_rate, rate, steps, ReachesPause("raises")))
    /\ UNCHANGED <<success_marked, success_unmarked, can_not_found, already_marked,
                   never_marked, site>>

\* The page the row was looked up on, and whether its title was rated.
OnPage(page, entry) == [entry EXCEPT !.page = page, !.rated = site[line_no].rated]

\* 160-253: the browser part of a row, then the pause.
MarkOnSite(line, rate, page, ui) ==
    IF ui \in {"search_raise", "elem_raise"}
    THEN LineException(line, TRUE, rate, UiSteps(is_unmark, ui))
    ELSE
    /\ im_log' = Append(im_log,
           OnPage(page,
           Done(CASE ui = "elem_missing" ->
                       IF is_unmark THEN "never_marked" ELSE "already_marked"
                  [] ui \in {"button_raise", "delete_raise", "star_raise",
                              "confirm_raise"} -> "error"
                  [] ui = "action_ok" -> "success",
                TRUE, rate, UiSteps(is_unmark, ui), ReachesPause("falls_through"))))
    /\ never_marked' = IF ui = "elem_missing" /\ is_unmark
                       THEN Append(never_marked, line_no) ELSE never_marked
    /\ already_marked' = IF ui = "elem_missing" /\ ~is_unmark
                         THEN Append(already_marked, line_no) ELSE already_marked
    /\ error_movies' = IF ui \in {"button_raise", "delete_raise", "star_raise",
                                  "confirm_raise"}
                       THEN Append(error_movies, line_no) ELSE error_movies
    /\ success_unmarked' = IF ui = "action_ok" /\ is_unmark
                           THEN success_unmarked + 1 ELSE success_unmarked
    /\ success_marked' = IF ui = "action_ok" /\ ~is_unmark
                         THEN success_marked + 1 ELSE success_marked
    /\ site' = IF ui = "action_ok"
               THEN [site EXCEPT ![line_no] =
                        IF is_unmark THEN NotRated ELSE [rated |-> TRUE, value |-> rate]]
               ELSE site
    /\ UNCHANGED can_not_found

\* 156: `if not imdb_id or not imdb_id.startswith('tt')`.
HasNoImdbId_emptyOnly(imdb_id) == imdb_id = <<>>
HasNoImdbId_digitsToo(imdb_id) ==
    \/ imdb_id = <<>>
    \/ ~StartsWithTT(imdb_id)
    \/ Len(imdb_id) < 3
    \/ \E i \in 3..Len(imdb_id) : ~IsDecimalChar(imdb_id[i])
HasNoImdbId(imdb_id) == imdb_id = <<>> \/ ~StartsWithTT(imdb_id)

\* 140, 254: every exception of the body is caught inside the loop, and
\* the loop goes on with the next row whatever the outcome.
NextLineNo_abortOnRaise(outcome) ==
    IF outcome = "exception" THEN Len(lines) + 1 ELSE line_no + 1
NextLineNo(outcome) == line_no + 1

\* 140-258: one iteration of the loop of mark.
MarkLine ==
    /\ UNCHANGED othersThanImport
    /\ im_pc = "rows"
    /\ line_no <= Len(lines)
    /\ LET line == lines[line_no] IN
       IF Len(line) < 2 THEN LineException(line, FALSE, 0, <<>>)        \* 143: IndexError
       ELSE IF line[2] = <<>>                                           \* 143-144
       THEN /\ im_log' = Append(im_log, Done("skipped", FALSE, 0, <<>>, ReachesPause("continue")))
            /\ UNCHANGED <<success_marked, success_unmarked, can_not_found,
                           already_marked, never_marked, error_movies, site>>
       ELSE IF ~IntReads(line[2]) THEN LineException(line, FALSE, 0, <<>>)  \* 150
       ELSE LET movie_rate == MovieRate(ParseInt(line[2]), rating_ajust) IN
            IF Len(line) < 3 THEN LineException(line, TRUE, movie_rate, <<>>)  \* 153
            ELSE IF HasNoImdbId(line[3])                               \* 156-159
            THEN /\ can_not_found' = Append(can_not_found, line_no)
                 /\ im_log' = Append(im_log, Done("not_found", TRUE, movie_rate, <<>>,
                                                  ReachesPause("continue")))
                 /\ UNCHANGED <<success_marked, success_unmarked, already_marked,
                                never_marked, error_movies, site>>
            ELSE \E page \in PageKinds, ui \in UiOutcomes(is_unmark) :
                    /\ CanHappen(is_unmark, page, site[line_no].rated, ui)
                    /\ MarkOnSite(line, movie_rate, page, ui)
    /\ line_no' = NextLineNo(im_log'[Len(im_log')].outcome)
    /\ UNCHANGED <<im_pc, argv, is_unmark, rating_ajust, driver, lines, run_no, first_log>>

\* 260-284: the browser is closed and the summary printed.
MarkFinish ==
    /\ UNCHANGED othersThanImport
    /\ im_pc = "rows"
    /\ line_no > Len(lines)
    /\ driver' = "quit"
    /\ im_pc' = "done"
    /\ UNCHANGED <<argv, is_unmark, rating_ajust, lines, line_no, success_marked,
                   success_unmarked, can_not_found, already_marked, never_marked,
                   error_movies, im_log, site, run_no, first_log>>

\* The importer is started again with the same command line and the same
\* movie.csv; IMDb keeps the ratings.
RunAgain ==
    /\ UNCHANGED othersThanImport
    /\ im_pc = "done"
    /\ run_no = 1
    /\ run_no' = 2
    /\ first_log' = im_log
    /\ im_pc' = "main"
    /\ is_unmark' = FALSE
    /\ rating_ajust' = 0 - 1
    /\ driver' = "none"
    /\ line_no' = 1
    /\ success_marked' = 0
    /\ success_unmarked' = 0
    /\ can_not_found' = <<>>
    /\ already_marked' = <<>>
    /\ never_marked' = <<>>
    /\ error_movies' = <<>>
    /\ im_log' = <<>>
    /\ UNCHANGED <<argv, lines, site>>

\* 124-132 and the defaults of mark (102): the process begins.
ImportStarts ==
    /\ is_unmark = FALSE
    /\ rating_ajust = 0 - 1
    /\ driver = "none"
    /\ line_no = 1
    /\ success_marked = 0
    /\ success_unmarked = 0
    /\ can_not_found = <<>>
    /\ already_marked = <<>>
    /\ never_marked = <<>>
    /\ error_movies = <<>>
    /\ im_log = <<>>
    /\ run_no = 1
    /\ first_log = <<>>

\* The runs: one row with every argument, and every list of rows in the
\* two modes.
Runs ==
    {[argv |-> a, lines |-> <<l>>] : a \in Arguments, l \in Lines}
    \cup {[argv |-> a, lines |-> ll] :
             a \in {None, Some(<<"u", "n", "m", "a", "r", "k">>)}, ll \in LineLists}

\* The ratings on IMDb before the run: no title rated, or every title rated 7.
Sites(n) == {[i \in 1..n |-> NotRated], [i \in 1..n |-> [rated |-> TRUE, value |-> 7]]}

InitImport ==
    /\ im_pc = "main"
    /\ \E run \in Runs :
          /\ argv = run.argv
          /\ lines = run.lines
          /\ site \in Sites(Len(run.lines))
    /\ ImportStarts

\* Mark mode, run twice: one row, or two plain rows.
Reruns ==
    {[argv |-> a, lines |-> <<l>>] : a \in {None, Some(<<"2">>)}, l \in Lines}
    \cup {[argv |-> None, lines |-> <<PlainLine, PlainLine>>]}

InitImportTwice ==
    /\ im_pc = "main"
    /\ \E run \in Reruns :
          /\ argv = run.argv
          /\ lines = run.lines
          /\ site \in Sites(Len(run.lines))
    /\ ImportStarts

IdleImport ==
    /\ im_pc = "done"
    /\ argv = None
    /\ is_unmark = FALSE
    /\ rating_ajust = 0 - 1
    /\ driver = "none"
    /\ lines = <<>>
    /\ line_no = 1
    /\ success_marked = 0
    /\ success_unmarked = 0
    /\ can_not_found = <<>>
    /\ already_marked = <<>>
    /\ never_marked = <<>>
    /\ error_movies = <<>>
    /\ im_log = <<>>
    /\ site = <<>>
    /\ run_no = 1
    /\ first_log = <<>>

NextImport ==
    \/ ImportMain
    \/ MarkLine
    \/ MarkFinish

NextImportTwice ==
    \/ ImportMain
    \/ MarkLine
    \/ MarkFinish
    \/ RunAgain

\* ========================================================================
\* The exporter process: the entry point of douban_to_csv.py
\* ========================================================================

\* What check_user_exist (866, 362-383) comes to.  Its make_request is for a
\* douban.com address, so it goes through the browser and calls
\* setup_driver (483-491) while DRIVER is None:
\*   "setup_exit"       setup_driver fails before a browser exists: sys.exit(1)
\*   "setup_exit_late"  setup_driver fails after webdriver.Chrome(...) gave a
\*                      browser (118-131 raise): sys.exit(1), DRIVER not set
\*   "interrupt"        KeyboardInterrupt while the page is fetched
\*   "no_user"          no page, or the page says the user does not exist
\*   "exists"           the user exists
CheckOutcomes == {"setup_exit", "setup_exit_late", "interrupt", "no_user", "exists"}

\* setup_driver (67-77, 134): the browser that exists is returned, whatever
\* mode is asked for; a new one is headless or visible as asked.
SetupDriver(drv, headless) ==
    IF drv # "None" THEN drv ELSE IF headless THEN "headless" ELSE "visible"

\* What handle_login_challenge does during the fetches of one step
\* (make_request 508, handle_login_challenge 195-233):
\*   "none"            no challenge page, no logged-in marker
\*   "seen_logged_in"  a page with a logged-in marker (227-231)
\*   "cleared"         challenge, operator prompted, cookies written (221-226)
\*   "cleared_nosave"  the same, and writing the cookies fails
\*   "failed"          challenge, operator prompted, marker still there
Recoveries == {"none", "seen_logged_in", "cleared", "cleared_nosave", "failed"}

RecoveryEvents(recovery) ==
    CASE recovery = "cleared" -> <<"prompt_challenge", "cookies_written">>
      [] recovery \in {"cleared_nosave", "failed"} -> <<"prompt_challenge">>
      [] OTHER -> <<>>

LoggedInAfter(logged, recovery) ==
    logged \/ recovery \in {"seen_logged_in", "cleared", "cleared_nosave"}

\* 866-870: the user id is verified, before the try statement.
MainCheckUser ==
    /\ UNCHANGED othersThanMain
    /\ main_pc = "start"
    /\ \E out \in CheckOutcomes, recovery \in Recoveries :
         LET started == out \notin {"setup_exit", "setup_exit_late"} IN
         /\ ~started => recovery = "none"
         /\ sessions_created' = IF out = "setup_exit" THEN sessions_created
                                ELSE sessions_created + 1
         /\ DRIVER' = IF started THEN SetupDriver(DRIVER, FALSE) ELSE "None"
         /\ IS_LOGGED_IN' = LoggedInAfter(IS_LOGGED_IN, recovery)
         /\ cookie_file' = IF recovery = "cleared" THEN "present" ELSE cookie_file
         /\ main_log' = main_log
                \o (IF out = "setup_exit" THEN <<>>
                    ELSE <<"session_" \o SetupDriver(DRIVER, FALSE)>>)
                \o (IF started THEN <<"fetch_people">> ELSE <<>>)
                \o RecoveryEvents(recovery)
         /\ main_pc' = IF out = "exists" THEN "setup" ELSE "exited"
         /\ exit_by' = CASE out = "exists" -> exit_by
                         [] out = "no_user" -> "invalid_user"
                         [] out = "interrupt" -> "interrupt_before_try"
                         [] OTHER -> "setup_exit"
    /\ UNCHANGED <<args, sessions_quit>>

\* What the manual login of 880-890 comes to:
\*   "logged_in"         a logged-in marker is in the page; cookies written
\*   "logged_in_nosave"  the same, and writing the cookies fails
\*   "not_detected"      no marker in the page (889-890)
\*   "raises"            driver.get raises before the operator is asked
\*   "interrupt"         KeyboardInterrupt at input()
ManualLogins == {"logged_in", "logged_in_nosave", "not_detected", "raises", "interrupt"}

\* 878: load_cookies is called only when the cache is not disabled, and it
\* reads the file only when there is one (426-432).
ReadsCookies(no_cache, file) == ~no_cache /\ file = "present"

\* 880: the manual login is the elif of the cookie test.
AsksManualLogin(manual_login, loaded) == manual_login /\ ~loaded

\* 873-890: setup_driver gives the browser that exists, then the cookies
\* are loaded or the operator logs in.
MainSetup ==
    /\ UNCHANGED othersThanMain
    /\ main_pc = "setup"
    /\ \E loaded \in BOOLEAN, manual \in ManualLogins :
         LET reads == ReadsCookies(args.no_cache, cookie_file)
             asks == AsksManualLogin(args.manual_login, loaded)
         IN
         /\ loaded => reads
         /\ ~asks => manual = "not_detected"
         /\ DRIVER' = SetupDriver(DRIVER, ~args.visible)
         /\ IS_LOGGED_IN' = (IS_LOGGED_IN \/ loaded
                             \/ manual \in {"logged_in", "logged_in_nosave"})
         /\ cookie_file' = IF manual = "logged_in" THEN "present" ELSE cookie_file
         /\ main_log' = main_log
                \o (IF reads THEN <<"cookies_read", "fetch_home">> ELSE <<>>)
                \o (IF asks /\ manual # "raises"
                    THEN <<"fetch_home", "prompt_manual">> ELSE <<>>)
                \o (IF manual = "logged_in" THEN <<"cookies_written">> ELSE <<>>)
         /\ main_pc' = IF manual \in {"raises", "interrupt"} THEN "finally" ELSE "export"
         /\ exit_by' = CASE manual = "raises" -> "exception"
                         [] manual = "interrupt" -> "interrupt"
                         [] OTHER -> exit_by
    /\ UNCHANGED <<args, sessions_created, sessions_quit>>

\* 893-898: export returns, raises or is interrupted; its fetches of the
\* collection pages go through make_request and its challenge handler.
MainExport ==
    /\ UNCHANGED othersThanMain
    /\ main_pc = "export"
    /\ \E recovery \in Recoveries :
         /\ IS_LOGGED_IN' = LoggedInAfter(IS_LOGGED_IN, recovery)
         /\ cookie_file' = IF recovery = "cleared" THEN "present" ELSE cookie_file
         /\ main_log' = main_log \o <<"export">> \o RecoveryEvents(recovery)
    /\ exit_by' \in {"normal", "exception", "interrupt"}
    /\ main_pc' = "finally"
    /\ UNCHANGED <<args, DRIVER, sessions_created, sessions_quit>>

\* 899-902, 142-157: quit_driver in the finally clause.
MainFinally ==
    /\ UNCHANGED othersThanMain
    /\ main_pc = "finally"
    /\ sessions_quit' = IF DRIVER # "None" THEN sessions_quit + 1 ELSE sessions_quit
    /\ DRIVER' = "None"
    /\ main_pc' = "exited"
    /\ UNCHANGED <<args, exit_by, IS_LOGGED_IN, cookie_file, sessions_created, main_log>>

InitMain ==
    /\ main_pc = "start"
    /\ args \in [visible : BOOLEAN, manual_login : BOOLEAN, no_cache : BOOLEAN]
    /\ exit_by = "running"
    /\ sessions_created = 0
    /\ sessions_quit = 0
    /\ main_log = <<>>
    /\ DRIVER = "None"
    /\ IS_LOGGED_IN = FALSE
    /\ cookie_file \in {"absent", "present"}

IdleMain ==
    /\ main_pc = "exited"
    /\ args = [visible |-> FALSE, manual_login |-> FALSE, no_cache |-> FALSE]
    /\ exit_by = "running"
    /\ sessions_created = 0
    /\ sessions_quit = 0
    /\ main_log = <<>>

\* No call of make_request under way.
IdleFetchCall ==
    /\ mr_pc = "done"
    /\ mr_url_douban = TRUE
    /\ mr_arg_selenium = FALSE
    /\ mr_driver0 = "None"
    /\ use_selenium = FALSE
    /\ attempt = 0
    /\ mr_result = "pending"
    /\ trace = <<>>

NextMain ==
    \/ MainCheckUser
    \/ MainSetup
    \/ MainExport
    \/ MainFinally

\* ========================================================================
\* handle_login_challenge: the interactive recovery from a challenge page
\* ========================================================================

\* The texts that handle_login_challenge looks for in driver.page_source:
\*   "abnormal_ip"    有异常请求从你的 IP 发出   (195, 218)
\*   "please_login"   请 登录 使用豆瓣           (195, 218)
\*   "personal_page"  个人主页                   (227)
\*   "i_read"         我读                       (227)
Markers == {"abnormal_ip", "please_login", "personal_page", "i_read"}

\* A page is the set of the markers its source contains.
ChallengePages == SUBSET Markers

\* 195 and 218: the page is a challenge page.
ShowsChallenge_ipOnly(page) == "abnormal_ip" \in page
ShowsChallenge(page) == "abnormal_ip" \in page \/ "please_login" \in page

\* 227: the page shows a logged-in user.
ShowsLoggedIn(page) == "personal_page" \in page \/ "i_read" \in page

\* save_cookies (386-407): the cookie file after the call; the cookies are
\* written when there is a browser and nothing raises.
SaveCookies(drv, file, write_ok) ==
    IF drv # "None" /\ write_ok THEN "present" ELSE file

\* The steps of save_cookies as the handler's log shows them.
SaveSteps(drv, write_ok) ==
    <<"save_cookies">> \o (IF drv # "None" /\ write_ok THEN <<"written">> ELSE <<>>)

\* What the operator's answer to input() (207) can be.
InputOutcomes == {"enter", "eof", "interrupt"}

\* 174-236: one call of the handler, from the page the browser shows.
\*   source_ok   reading driver.page_source works
\*   click_ok    the login link is found and clicked (199-204)
\*   answer      what input() gives (207)
\*   get_ok      driver.get(url) and the wait for the body work (210-215)
\*   page2       the page fetched again
\*   write_ok    pickling the cookies works (397-406)
HandleLoginChallengeCall ==
    /\ UNCHANGED othersThanChallenge
    /\ hl_pc = "call"
    /\ \E source_ok \in BOOLEAN, click_ok \in BOOLEAN, answer \in InputOutcomes,
          get_ok \in BOOLEAN, page2 \in ChallengePages, write_ok \in BOOLEAN :
         LET click == <<IF click_ok THEN "click" ELSE "click_raises">> IN
         /\ hl_pc' = "returned"
         /\ UNCHANGED hl_page
         /\ IF ~source_ok
            THEN \* 234-236: the exception is printed
                 /\ hl_steps' = <<>>
                 /\ hl_return' = "False"
                 /\ hl_page2' = {}
                 /\ UNCHANGED <<IS_LOGGED_IN, cookie_file>>
            ELSE IF ShowsChallenge(hl_page)
            THEN IF answer = "interrupt"
                 THEN \* KeyboardInterrupt is no Exception
                      /\ hl_steps' = click \o <<"input">>
                      /\ hl_return' = "KeyboardInterrupt"
                      /\ hl_page2' = {}
                      /\ UNCHANGED <<IS_LOGGED_IN, cookie_file>>
                 ELSE IF answer = "eof"
                 THEN \* EOFError: 234-236
                      /\ hl_steps' = click \o <<"input">>
                      /\ hl_return' = "False"
                      /\ hl_page2' = {}
                      /\ UNCHANGED <<IS_LOGGED_IN, cookie_file>>
                 ELSE IF ~get_ok
                 THEN \* 210-215 raise: 234-236
                      /\ hl_steps' = click \o <<"input", "get_raises">>
                      /\ hl_return' = "False"
                      /\ hl_page2' = {}
                      /\ UNCHANGED <<IS_LOGGED_IN, cookie_file>>
                 ELSE /\ hl_page2' = page2
                      /\ IF ShowsChallenge(page2)
                         THEN \* 218-220
                              /\ hl_steps' = click \o <<"input", "get">>
                              /\ hl_return' = "False"
                              /\ UNCHANGED <<IS_LOGGED_IN, cookie_file>>
                         ELSE \* 221-226
                              /\ hl_steps' = click \o <<"input", "get">>
                                               \o SaveSteps(DRIVER, write_ok)
                              /\ hl_return' = "True"
                              /\ IS_LOGGED_IN' = TRUE
                              /\ cookie_file' = SaveCookies(DRIVER, cookie_file, write_ok)
            ELSE \* 227-233
                 /\ hl_steps' = <<>>
                 /\ hl_return' = "True"
                 /\ hl_page2' = {}
                 /\ IS_LOGGED_IN' = (IS_LOGGED_IN \/ ShowsLoggedIn(hl_page))
                 /\ UNCHANGED cookie_file

\* make_request (491-508) calls the handler with the browser it got from
\* setup_driver, on whatever page the address gave.
InitChallenge ==
    /\ hl_pc = "call"
    /\ hl_page \in ChallengePages
    /\ hl_page2 = {}
    /\ hl_steps = <<>>
    /\ hl_return = "pending"
    /\ DRIVER \in {"headless", "visible"}
    /\ IS_LOGGED_IN \in BOOLEAN
    /\ cookie_file \in {"absent", "present"}

IdleChallenge ==
    /\ hl_pc = "returned"
    /\ hl_page = {}
    /\ hl_page2 = {}
    /\ hl_steps = <<>>
    /\ hl_return = "pending"

NextChallenge == HandleLoginChallengeCall

\* ========================================================================
\* login: the importer waits for the operator to sign in
\* ========================================================================

\* WebDriverWait(driver, 600) polls its condition; the 600 seconds are
\* counted in polls.
MaxWaitPolls == 3
\* The operator changes the address of the browser at most this many times.
MaxUrlChanges == 3

\* The addresses the browser can show, told apart by the two tests of line 92:
\*   "imdb_signin"     https://www.imdb.com/registration/signin, where login starts
\*   "imdb_ap_signin"  https://www.imdb.com/ap/signin?..., the form of a provider
\*   "provider"        the sign-in page of another site (no imdb.com in it)
\*   "imdb_home"       https://www.imdb.com/ after the sign-in
Urls == {"imdb_signin", "imdb_ap_signin", "provider", "imdb_home"}

\* 92: 'imdb.com' in new_url and 'signin' not in new_url.
OnImdb(url) == url \in {"imdb_signin", "imdb_ap_signin", "imdb_home"}
IsSignin(url) == url \in {"imdb_signin", "imdb_ap_signin"}
LoggedInUrl(url) == OnImdb(url) /\ ~IsSignin(url)

\* What lines 51-82 come to before the loop:
\*   "firefox_raises"  webdriver.Firefox raises
\*   "get_raises"      driver.get of the sign-in page raises
\*   "no_perks"        the signin-perks element is missing (74-77): go on
\*   "script_raises"   execute_script raises
\*   "ok"              the page is shown with its notice
LoginStarts == {"firefox_raises", "get_raises", "no_perks", "script_raises", "ok"}

\* 51-82: the browser is started and the address of the sign-in page kept.
LoginStart ==
    /\ UNCHANGED othersThanLogin
    /\ lg_pc = "start"
    /\ \E out \in LoginStarts :
         IF out \in {"no_perks", "ok"}
         THEN /\ lg_pc' = "waiting"
              /\ lg_url' = "imdb_signin"
              /\ lg_current_url' = "imdb_signin"                  \* 80
              /\ UNCHANGED <<lg_waited, lg_seen>>
         ELSE \* 96-99: printed and raised again
              /\ lg_pc' = "raised"
              /\ UNCHANGED <<lg_url, lg_current_url, lg_waited, lg_seen>>

\* 87: one poll of WebDriverWait(driver, 600).until(url_changes(current_url)).
\* current_url is the address kept at line 80; the loop never assigns it.
\* While the address is that one, the wait goes on until its time is over
\* (TimeoutException, raised again at 96-99).  When the address is another
\* one the wait returns at the first poll.
LoginWait ==
    /\ UNCHANGED othersThanLogin
    /\ lg_pc = "waiting"
    /\ IF lg_url = lg_current_url
       THEN IF lg_waited < MaxWaitPolls
            THEN /\ lg_waited' = lg_waited + 1
                 /\ UNCHANGED lg_pc
            ELSE /\ lg_pc' = "raised"
                 /\ UNCHANGED lg_waited
       ELSE /\ lg_pc' = "checking"
            /\ lg_waited' = 0
    /\ UNCHANGED <<lg_url, lg_current_url, lg_seen>>

\* 88-96: the address is read again; the loop ends on a logged-in address,
\* and otherwise goes back to line 87 for a new wait of 600 seconds.
LoginCheck ==
    /\ UNCHANGED othersThanLogin
    /\ lg_pc = "checking"
    /\ lg_pc' = IF LoggedInUrl(lg_url) THEN "returned" ELSE "waiting"
    /\ UNCHANGED <<lg_url, lg_current_url, lg_waited, lg_seen>>

\* The operator, in the browser window: the address changes.
OperatorNavigates ==
    /\ UNCHANGED othersThanLogin
    /\ lg_pc \in {"waiting", "checking"}
    /\ Len(lg_seen) < MaxUrlChanges
    /\ \E url \in Urls \ {lg_url} :
         /\ lg_url' = url
         /\ lg_seen' = Append(lg_seen, url)
    /\ UNCHANGED <<lg_pc, lg_current_url, lg_waited>>

InitLogin ==
    /\ lg_pc = "start"
    /\ lg_url = "none"
    /\ lg_current_url = "none"
    /\ lg_waited = 0
    /\ lg_seen = <<>>

IdleLogin ==
    /\ lg_pc = "returned"
    /\ lg_url = "none"
    /\ lg_current_url = "none"
    /\ lg_waited = 0
    /\ lg_seen = <<>>

NextLogin ==
    \/ LoginStart
    \/ LoginWait
    \/ LoginCheck
    \/ OperatorNavigates

\* Nobody waits for the operator.
IdleInteractive == IdleChallenge /\ IdleLogin

\* ========================================================================
\* Specifications
\* ========================================================================
InitSpecFetch == InitFetch /\ IdlePaginator /\ IdleImdb /\ IdleExport /\ IdleCsv /\ IdleImport
    /\ IdleMain /\ IdleInteractive
SpecFetch == InitSpecFetch /\ [][NextFetch]_vars

InitSpecPaginator == InitPaginator /\ IdleFetch /\ IdleImdb /\ IdleExport /\ IdleCsv /\ IdleImport
    /\ IdleMain /\ IdleInteractive
SpecPaginator == InitSpecPaginator /\ [][NextPaginator]_vars

InitSpecImdb == InitImdb /\ IdleFetch /\ IdlePaginator /\ IdleExport /\ IdleCsv /\ IdleImport
    /\ IdleMain /\ IdleInteractive
SpecImdb == InitSpecImdb /\ [][NextImdb]_vars

InitSpecExport == InitExport /\ IdleFetch /\ IdlePaginator /\ IdleImdb /\ IdleCsv /\ IdleImport
    /\ IdleMain /\ IdleInteractive
SpecExport == InitSpecExport /\ [][NextExport]_vars

InitSpecCsv == InitCsv /\ IdleFetch /\ IdlePaginator /\ IdleImdb /\ IdleExport /\ IdleImport
    /\ IdleMain /\ IdleInteractive
SpecCsv == InitSpecCsv /\ [][NextCsv]_vars

InitSpecImport ==
    InitImport /\ IdleFetch /\ IdlePaginator /\ IdleImdb /\ IdleExport /\ IdleCsv
    /\ IdleMain /\ IdleInteractive
SpecImport == InitSpecImport /\ [][NextImport]_vars

InitSpecImportTwice ==
    InitImportTwice /\ IdleFetch /\ IdlePaginator /\ IdleImdb /\ IdleExport /\ IdleCsv
    /\ IdleMain /\ IdleInteractive
SpecImportTwice == InitSpecImportTwice /\ [][NextImportTwice]_vars

InitSpecMain ==
    InitMain /\ IdleFetchCall /\ IdlePaginator /\ IdleImdb /\ IdleExport /\ IdleCsv
    /\ IdleImport /\ IdleInteractive
SpecMain == InitSpecMain /\ [][NextMain]_vars

InitSpecChallenge ==
    InitChallenge /\ IdleFetchCall /\ IdlePaginator /\ IdleImdb /\ IdleExport /\ IdleCsv
    /\ IdleImport /\ IdleMain /\ IdleLogin
SpecChallenge == InitSpecChallenge /\ [][NextChallenge]_vars

InitSpecLogin ==
    InitLogin /\ IdleFetch /\ IdlePaginator /\ IdleImdb /\ IdleExport /\ IdleCsv
    /\ IdleImport /\ IdleMain /\ IdleChallenge
SpecLogin == InitSpecLogin /\ [][NextLogin]_vars

\* The importer runs: its own steps are taken whenever they can be.  The
\* operator is under no obligation.
SpecLoginFair ==
    SpecLogin /\ WF_vars(LoginStart) /\ WF_vars(LoginWait) /\ WF_vars(LoginCheck)

\* ------------------------------------------------------------------------
\* Properties of make_request
\* ------------------------------------------------------------------------
AttemptAt(i) == i \in DOMAIN trace /\ trace[i].ev = "attempt"
Attempts == {i \in DOMAIN trace : trace[i].ev = "attempt"}
Backoffs == {i \in DOMAIN trace : trace[i].ev = "backoff"}
AllTransportErrors == \A i \in Attempts : trace[i].out \in TransportOutcomes

\* An HTTP attempt that failed: a non-success status or a transport error.
HttpFailed(i) ==
    /\ AttemptAt(i)
    /\ trace[i].path = "http"
    /\ trace[i].out \in {"403", "status", "ssl_retry_status", "ssl_retry_exc", "proxy",
                         "ConnectionError_named", "ConnectionError_plain", "Timeout"}

\* C1: Retry exhaustion. When every attempt of a make_request call fails with
\* a transport error (a requests exception on the HTTP path, a Timeout or
\* WebDriver exception on the browser path), the call makes exactly
\* MAX_RETRIES = 3 attempts (iterations of the retry loop), returns None, and
\* at no point hands an exception to its caller.
C1_RetryExhaustion ==
    AllTransportErrors =>
        /\ mr_result \in {"pending", "None"}
        /\ Cardinality(Attempts) <= 3
        /\ mr_pc = "done" =>
              /\ mr_result = "None"
              /\ Cardinality(Attempts) = 3
              /\ {trace[i].k : i \in Attempts} = {0, 1, 2}

\* C1 witness: a finished call of three attempts, all transport errors, the
\* first on the HTTP path and the last on the browser path.
C1_Witness ==
    /\ mr_pc = "done"
    /\ mr_result = "None"
    /\ AllTransportErrors
    /\ Cardinality(Attempts) = 3
    /\ \E i, j \in Attempts : trace[i].path = "http" /\ trace[j].path = "browser"

\* C2 (as stated): in every make_request call the first attempt uses the HTTP
\* client, and a browser attempt comes only after a failed HTTP attempt of the
\* same call.
C2_HttpFirst_AsStated ==
    \A i \in Attempts :
        /\ trace[i].k = 0 => trace[i].path = "http"
        /\ trace[i].path = "browser" => \E j \in 1..(i - 1) : HttpFailed(j)

\* The calls that start on the HTTP path: the address is not a douban.com
\* address, the caller did not ask for the browser, and no browser session
\* exists.
StartsOnHttp == ~mr_url_douban /\ ~mr_arg_selenium /\ mr_driver0 = "None"

\* C2 (amended): a make_request call starts with the HTTP client exactly when
\* its address holds no "douban.com", use_selenium was not passed and no
\* browser session exists; in such a call the browser is used only after an
\* earlier HTTP attempt of the call has failed. Every other call (any
\* douban.com address among them) uses the browser from its first attempt on.
C2_HttpFirst_Amended ==
    \A i \in Attempts :
        /\ trace[i].k = 0 => (trace[i].path = "http" <=> StartsOnHttp)
        /\ (StartsOnHttp /\ trace[i].path = "browser") =>
               \E j \in 1..(i - 1) : HttpFailed(j)
        /\ ~StartsOnHttp => trace[i].path = "browser"

\* C2 witness: a call that started on the HTTP path, failed there and went on
\* with the browser.
C2_Witness ==
    /\ StartsOnHttp
    /\ \E i, j \in Attempts :
          /\ i < j
          /\ trace[i].k = 0 /\ trace[i].path = "http"
          /\ trace[j].path = "browser"

\* C3: Escalation is triggered and sticky. After an HTTP attempt that ended in
\* HTTP 403, a proxy error or a connection error, every remaining attempt of
\* the call uses the browser; after a browser attempt no attempt of the call
\* uses HTTP.
C3_Escalation ==
    \A i, j \in Attempts :
        i < j =>
            /\ (trace[i].path = "http"
                /\ trace[i].out \in {"403", "proxy", "ConnectionError_named",
                                     "ConnectionError_plain"})
                   => trace[j].path = "browser"
            /\ trace[i].path = "browser" => trace[j].path = "browser"

\* What of C3 the code does: 403, a proxy error and a connection error whose
\* message holds the text "ConnectionError" escalate, and the browser path is
\* never left.
C3_EscalationOnText ==
    \A i, j \in Attempts :
        i < j =>
            /\ (trace[i].path = "http"
                /\ trace[i].out \in {"403", "proxy", "ConnectionError_named"})
                   => trace[j].path = "browser"
            /\ trace[i].path = "browser" => trace[j].path = "browser"

\* C4: Backoff. Attempts k and k+1 are separated by exactly one backoff sleep,
\* of RETRY_DELAY * 2^k seconds plus a jitter in [1, 5]: 6..10 after attempt
\* 0, 11..15 after attempt 1, on every failure path (a failed login
\* challenge among them); each backoff is longer than the one before; no
\* backoff follows the final attempt.
C4_Backoff ==
    /\ \A i, j \in Attempts :
          trace[j].k = trace[i].k + 1 =>
              LET between == {p \in Backoffs : i < p /\ p < j} IN
              /\ i < j
              /\ Cardinality(between) = 1
              /\ \A p \in between :
                    /\ trace[p].secs >= 5 * (2 ^ trace[i].k) + 1
                    /\ trace[p].secs <= 5 * (2 ^ trace[i].k) + 5
    /\ \A p, q \in Backoffs : p < q => trace[p].secs < trace[q].secs
    /\ \A i \in Attempts :
          trace[i].k = 2 => ~ \E p \in Backoffs : p > i
    /\ Cardinality(Backoffs) <= 2

\* C4 witness: three attempts, the first failing on a login challenge, the
\* second on a browser error, with the two backoff sleeps between them.
C4_Witness ==
    /\ mr_pc = "done"
    /\ Cardinality(Attempts) = 3
    /\ Cardinality(Backoffs) = 2
    /\ \E i, j \in Attempts :
          /\ trace[i].k = 0 /\ trace[i].out = "challenge_still"
          /\ trace[j].k = 1 /\ trace[j].out = "browser_exc"

\* The places of the trace where the operator was asked to log in (207).
PromptEvents == {i \in DOMAIN trace : trace[i].ev = "prompt"}

\* C20: in one call of make_request the operator is asked for the
\* interactive recovery at most once, and an attempt whose challenge marker
\* is still present after the recovery is the last attempt of the call,
\* which returns None.
C20_OneRecoveryPerFetch ==
    /\ Cardinality(PromptEvents) <= 1
    /\ \A i \in Attempts :
          trace[i].out = "challenge_still" =>
              /\ ~ \E j \in Attempts : j > i
              /\ mr_pc = "done" => mr_result = "None"

\* What the loop of 487-516 gives: one prompt at most in each attempt, and a
\* call that returns None at once only when the challenge stays on the last
\* attempt.
C20_OneRecoveryPerAttempt ==
    /\ \A p, q \in PromptEvents : trace[p].k = trace[q].k => p = q
    /\ Cardinality(PromptEvents) <= MAX_RETRIES
    /\ \A i \in Attempts :
          (trace[i].out = "challenge_still" /\ trace[i].k = MAX_RETRIES - 1
           /\ mr_pc = "done") => mr_result = "None"

\* The operator is asked three times in one call, the challenge staying each
\* time.
C20_PromptedAgain ==
    /\ mr_pc = "done"
    /\ mr_result = "None"
    /\ Cardinality(PromptEvents) = MAX_RETRIES
    /\ \A i \in Attempts : trace[i].out = "challenge_still"

\* ------------------------------------------------------------------------
\* Properties of url_generator
\* ------------------------------------------------------------------------
SetMax(S) == CHOOSE m \in S : \A x \in S : x <= m

\* The first page has no pagination control, or the control has no links.
NoPagination(first) == ~first.fetched \/ ~first.paginator \/ first.links = <<>>

\* The numbers written as page-link texts.
NumericLinkValues(first) ==
    {ParseInt(first.links[i]) : i \in {j \in DOMAIN first.links : IntReads(first.links[j])}}

\* The largest numeric page-link text, at least 1.
LargestPage(first) == SetMax(NumericLinkValues(first) \cup {1})

\* A page-link text that isdigit() accepts and int() cannot convert.
UnreadableLink(first) ==
    \E i \in DOMAIN first.links : IsDigit(first.links[i]) /\ ~IntReads(first.links[i])

PagedUrls(n) ==
    /\ Len(pg_urls) = n
    /\ \A p \in 1..n : pg_urls[p].has_start /\ pg_urls[p].start = (p - 1) * 15

\* C6 (as stated): url_generator yields exactly one address when the first
\* page has no pagination control or no page links; otherwise it yields
\* exactly max_page addresses, max_page the largest numeric page-link text
\* (at least 1), in page order, the p-th with start offset (p-1)*15.
C6_Paginator_AsStated ==
    pg_pc = "done" =>
        IF NoPagination(pg_first)
        THEN Len(pg_urls) = 1
        ELSE PagedUrls(LargestPage(pg_first))

\* C6 (amended): as stated, except that when a page-link text passes
\* isdigit() and int() cannot convert it, parsing the pagination fails and
\* exactly one address, that of the first page, is yielded.
C6_Paginator_Amended ==
    pg_pc = "done" =>
        IF NoPagination(pg_first) \/ UnreadableLink(pg_first)
        THEN pg_urls = <<FirstUrl>>
        ELSE PagedUrls(LargestPage(pg_first))

\* C6 witness: a pagination control with a numeric and a non-numeric link,
\* for which twenty addresses were yielded.
C6_Witness ==
    /\ pg_pc = "done"
    /\ ~NoPagination(pg_first)
    /\ \E i, j \in DOMAIN pg_first.links :
          IntReads(pg_first.links[i]) /\ ~IsDigit(pg_first.links[j])
    /\ Len(pg_urls) = 20
    /\ pg_urls[20].start = 285

\* ------------------------------------------------------------------------
\* Properties of get_imdb_id
\* ------------------------------------------------------------------------
SetMin(S) == CHOOSE m \in S : \A x \in S : m <= x

\* A text without the white space at its two ends.
Trimmed(text) ==
    LET solid == {i \in DOMAIN text : text[i] # " "} IN
    IF solid = {} THEN <<>> ELSE SubSeq(text, SetMin(solid), SetMax(solid))

\* "tt" followed by one or more decimal digits, and nothing else.
IsTtDigits(text) ==
    /\ Len(text) >= 3
    /\ text[1] = "t" /\ text[2] = "t"
    /\ \A i \in 3..Len(text) : IsDecimalChar(text[i])

\* The label-adjacent strategy matches: the text after the IMDb label,
\* trimmed, starts with "tt".
LabelMatches(page) ==
    /\ page.label.some
    /\ Len(Trimmed(page.label.text)) >= 2
    /\ SubSeq(Trimmed(page.label.text), 1, 2) = <<"t", "t">>

\* The places of the href (written from its "tt" on) where tt and a digit stand.
HrefOf(page) == <<"t", "t">> \o page.anchor.text
HrefPlaces(page) ==
    {i \in 1..(Len(HrefOf(page)) - 2) :
        SubSeq(HrefOf(page), i, i + 1) = <<"t", "t">> /\ IsDecimalChar(HrefOf(page)[i + 2])}

\* The anchor-href strategy matches: the href holds tt followed by digits.
HrefMatches(page) == page.anchor.some /\ HrefPlaces(page) # {}

\* The href match: from the leftmost such place, tt and all the digits after it.
HrefMatch(page) ==
    LET h == HrefOf(page)
        i == SetMin(HrefPlaces(page))
        last == SetMax({j \in (i + 2)..Len(h) : \A k \in (i + 2)..j : IsDecimalChar(h[k])})
    IN SubSeq(h, i, last)

\* The generic token scan matches: a text of the info section is tt followed
\* by two or more digits.
TokenMatches(page) ==
    /\ page.token.some
    /\ Len(page.token.text) > 3
    /\ IsTtDigits(page.token.text)

\* C7: External-id fallback order. Where get_imdb_id reaches its strategies
\* (the detail page was fetched and has its info section), it returns the
\* result of the first strategy that matches, in the order label-adjacent
\* text, anchor href, generic token scan; in particular when the label
\* yields nothing and the anchor's href holds tt followed by digits, that
\* href match is returned; when no strategy matches the result is None.
C7_FallbackOrder ==
    (id_pc = "done" /\ id_page.fetched /\ id_page.has_info) =>
        /\ LabelMatches(id_page) => id_result = Some(Trimmed(id_page.label.text))
        /\ (~LabelMatches(id_page) /\ HrefMatches(id_page)) =>
               id_result = Some(HrefMatch(id_page))
        /\ (~LabelMatches(id_page) /\ ~HrefMatches(id_page) /\ TokenMatches(id_page)) =>
               id_result = Some(id_page.token.text)
        /\ (~LabelMatches(id_page) /\ ~HrefMatches(id_page) /\ ~TokenMatches(id_page)) =>
               id_result = None

\* C7 witness: the label is there and yields nothing, the href and a token
\* both match, with different ids, and the href match was returned.
C7_Witness ==
    /\ id_pc = "done"
    /\ id_page.fetched /\ id_page.has_info
    /\ id_page.label.some /\ ~LabelMatches(id_page)
    /\ HrefMatches(id_page)
    /\ TokenMatches(id_page)
    /\ id_page.token.text # HrefMatch(id_page)
    /\ id_result = Some(HrefMatch(id_page))
    /\ id_result.text = <<"t", "t", "1">>

\* Outside the strategies: without a fetched page or an info section the
\* result is None, whatever anchors the page has.
ImdbGuards ==
    (id_pc = "done" /\ ~(id_page.fetched /\ id_page.has_info)) => id_result = None

\* ------------------------------------------------------------------------
\* export: the cutoff date
\* ------------------------------------------------------------------------

Range(seq) == {seq[i] : i \in DOMAIN seq}

\* The records of the run: those collected, and those written to movie.csv.
Emitted == Range(info) \cup Range(movie_csv.rows)

\* The item at place i of the run is dated at or before START_DATE.
AtOrBeforeStart(i) == HasDate(shown[i]) /\ shown[i].date <= START_DATE

\* The item at place i has a title, a link and a date that reads.
WellFormed(i) == shown[i].shape \in {"ok", "no_date"}

C8_ExternalIdShape ==
    \A r \in Emitted : r.imdb.some => IsTtDigits(r.imdb.text)

\* ------------------------------------------------------------------------
\* movie.csv read back
\* ------------------------------------------------------------------------

HasCR(text) == \E i \in DOMAIN text : text[i] = CR

\* C9: the rows read back are as many as the records written, in the same
\* order, and the three fields of each are the title, the rating and the IMDb
\* id as texts, None being read as the empty text.
C9_RoundTrip ==
    rt_pc = "read" =>
        /\ rt_content.state = "START_RECORD"
        /\ Len(rt_content.rows) = Len(rt_info)
        /\ \A i \in DOMAIN rt_info : rt_content.rows[i] = FieldsOf(rt_info[i])

\* The round trip holds for the records whose title has no carriage return.
C9_RoundTripWithoutCR ==
    (rt_pc = "read" /\ \A i \in DOMAIN rt_info : ~HasCR(rt_info[i].title)) =>
        /\ rt_content.state = "START_RECORD"
        /\ Len(rt_content.rows) = Len(rt_info)
        /\ \A i \in DOMAIN rt_info : rt_content.rows[i] = FieldsOf(rt_info[i])

\* A title with a carriage return between two letters is read back as the
\* end of a row.
C9_SplitRow ==
    /\ rt_pc = "read"
    /\ rt_info = <<[title |-> <<"a", CR, "a">>, rating |-> 5, imdb |-> Some(<<"t", "t", "1">>)]>>
    /\ rt_content.rows = << << <<"a">> >>, << <<"a">>, <<"5">>, <<"t", "t", "1">> >> >>

\* ------------------------------------------------------------------------
\* The importer: the rating given on IMDb
\* ------------------------------------------------------------------------

\* The adjustments of mark mode: the default and those given on the command
\* line.
AdjustmentOfRun == IF argv.some THEN IntOfArg(argv.text) ELSE 0 - 1

\* C10: the rating the importer uses for a row is twice the rating of the
\* row plus the adjustment of the run, and it lies in 0..12 when the rating
\* of the row is in 1..5, the adjustment of a run being in -2..2.
C10_RatingConversion ==
    \A k \in DOMAIN im_log :
        im_log[k].has_rate =>
            LET source == ParseInt(lines[im_log[k].line][2]) IN
            /\ im_log[k].movie_rate = source * 2 + rating_ajust
            /\ ~is_unmark => rating_ajust = AdjustmentOfRun
            /\ rating_ajust \in (0 - 2)..2
            /\ source \in 1..5 => im_log[k].movie_rate \in 0..12

\* A row rated 5 is given 12 on IMDb with the adjustment 2, and a row rated
\* 1 is given 0 with the adjustment -2.
C10_Witness ==
    /\ im_pc = "done"
    /\ \E k \in DOMAIN im_log :
          /\ im_log[k].outcome = "success"
          /\ \/ /\ lines[im_log[k].line][2] = <<"5">>
                /\ argv = Some(<<"2">>)
                /\ im_log[k].movie_rate = 12
             \/ /\ lines[im_log[k].line][2] = <<"1">>
                /\ argv = Some(<<"-", "2">>)
                /\ im_log[k].movie_rate = 0

\* ------------------------------------------------------------------------
\* The importer: the outcome of each row
\* ------------------------------------------------------------------------

\* How many times the row at place i is in a list.
Occurrences(list, i) == Cardinality({k \in DOMAIN list : list[k] = i})

\* The places of the log where the row at place i has the outcome.
LoggedAs(i, outcome) ==
    {k \in DOMAIN im_log : im_log[k].line = i /\ im_log[k].outcome = outcome}

\* In how many of the results the row at place i is counted: the four lists,
\* and the two counters of successes.
Counted(i) ==
    Occurrences(can_not_found, i) + Occurrences(already_marked, i)
    + Occurrences(never_marked, i) + Occurrences(error_movies, i)
    + Cardinality(LoggedAs(i, "success"))

\* The counters of successes count the successes of the log.
CountersAgree ==
    success_marked + success_unmarked =
        Cardinality({k \in DOMAIN im_log : im_log[k].outcome = "success"})

\* The results of the row at place i.
ResultsOf(i) ==
    <<Occurrences(can_not_found, i), Occurrences(already_marked, i),
      Occurrences(never_marked, i), Occurrences(error_movies, i),
      Cardinality(LoggedAs(i, "success"))>>

\* C11 as stated: when the run is over every row of the file is counted in
\* exactly one of not_found, already_marked, never_marked, success, error.
C11_ExactlyOneOutcome ==
    im_pc = "done" => \A i \in DOMAIN lines : Counted(i) = 1

\* The rows that end in no result: a row with an empty rating or fewer than
\* three fields, and a row whose processing raised while its title or its id
\* is empty.
Unreported(i) ==
    \/ Len(lines[i]) < 3
    \/ lines[i][2] = <<>>
    \/ LoggedAs(i, "exception") # {} /\ (lines[i][1] = <<>> \/ lines[i][3] = <<>>)

\* C11 amended: every row is counted in at most one result; once the loop is
\* past it, it is counted in none exactly when it is one of the rows above;
\* rows not yet started are counted in none; and the results of a row the
\* loop is past never change.
C11_AtMostOneOutcome ==
    /\ [](/\ CountersAgree
          /\ \A i \in DOMAIN lines :
                /\ Counted(i) <= 1
                /\ (im_pc = "main" \/ i >= line_no) => Counted(i) = 0
                /\ (im_pc \in {"rows", "done"} /\ i < line_no)
                      => (Counted(i) = 0 <=> Unreported(i)))
    /\ [][\A i \in DOMAIN lines : i < line_no => ResultsOf(i)' = ResultsOf(i)]_vars

\* A finished run of two rows: the first has an empty rating and is counted
\* nowhere, the second failed on the site and is in error_movies.
C11_Witness ==
    /\ im_pc = "done"
    /\ Len(lines) = 2
    /\ Len(lines[1]) = 3 /\ lines[1][2] = <<>> /\ Counted(1) = 0
    /\ Occurrences(error_movies, 2) = 1 /\ Counted(2) = 1

\* ------------------------------------------------------------------------
\* The importer: rows without a usable IMDb id
\* ------------------------------------------------------------------------

\* The row at place i has a rating that reads as a number, and an IMDb id
\* that is empty or does not start with "tt".
RatedWithoutId(i) ==
    /\ Len(lines[i]) = 3
    /\ IntReads(lines[i][2])
    /\ lines[i][3] = <<>> \/ ~(Len(lines[i][3]) >= 2 /\ lines[i][3][1] = "t"
                                /\ lines[i][3][2] = "t")

\* C12: once the loop is past such a row, the row is in can_not_found and in
\* no other result, and no step on the site was begun for it.
C12_NotFoundWithoutSearch ==
    \A i \in DOMAIN lines :
        (im_pc \in {"rows", "done"} /\ i < line_no /\ RatedWithoutId(i)) =>
            /\ Occurrences(can_not_found, i) = 1
            /\ Counted(i) = 1
            /\ \A k \in DOMAIN im_log :
                  im_log[k].line = i =>
                      /\ im_log[k].outcome = "not_found"
                      /\ im_log[k].steps = <<>>
                      /\ ~im_log[k].searched

\* A finished run with a row rated 4 whose id is empty: it is in
\* can_not_found.
C12_Witness ==
    /\ im_pc = "done"
    /\ \E i \in DOMAIN lines :
          /\ RatedWithoutId(i)
          /\ lines[i][2] = <<"4">>
          /\ lines[i][3] = <<>>
          /\ Occurrences(can_not_found, i) = 1
          /\ LoggedAs(i, "not_found") # {}

\* ------------------------------------------------------------------------
\* The importer: which rows are classified not_found
\* ------------------------------------------------------------------------

\* C13 as stated: once the loop is past a row of three fields whose rating
\* is empty, or whose IMDb id is not "tt" followed by digits, the row is in
\* can_not_found.
C13_NotFoundAsStated ==
    \A i \in DOMAIN lines :
        (im_pc \in {"rows", "done"} /\ i < line_no /\ Len(lines[i]) = 3
         /\ (lines[i][2] = <<>> \/ ~IsTtDigits(lines[i][3])))
            => Occurrences(can_not_found, i) = 1

\* C13 amended: the rows in can_not_found are the rows with a rating that
\* reads as a number and an id that is empty or does not start with "tt";
\* a row with an empty rating is in no result and no step on the site is
\* begun for it.
C13_NotFoundExactly ==
    \A i \in DOMAIN lines :
        (im_pc \in {"rows", "done"} /\ i < line_no) =>
            /\ Occurrences(can_not_found, i) = (IF RatedWithoutId(i) THEN 1 ELSE 0)
            /\ (Len(lines[i]) = 3 /\ lines[i][2] = <<>>) =>
                  /\ Counted(i) = 0
                  /\ \A k \in DOMAIN im_log : im_log[k].line = i => im_log[k].steps = <<>>

\* A finished run with a row rated 5 whose id is "tta": it was searched on
\* the site and rated.
C13_Witness ==
    /\ im_pc = "done"
    /\ \E i \in DOMAIN lines :
          /\ Len(lines[i]) = 3
          /\ lines[i][2] = <<"5">>
          /\ lines[i][3] = <<"t", "t", "a">>
          /\ Occurrences(can_not_found, i) = 0
          /\ \E k \in LoggedAs(i, "success") : im_log[k].searched

\* ------------------------------------------------------------------------
\* The importer: the check for an existing rating
\* ------------------------------------------------------------------------

\* The rows that were looked up on the site and whose page was inspected.
Inspected(entry) == entry.outcome # "exception" /\ "look" \in Range(entry.steps)

\* The page of the entry shows a rating of the user.
ShowsUserRating(entry) == HasUserRatingScore(entry.page, entry.rated)

\* In unmark mode a row whose page shows no rating of the user is classified
\* never_marked, and neither the rating button nor the delete button is used.
C14_NeverMarked ==
    \A k \in DOMAIN im_log :
        (is_unmark /\ Inspected(im_log[k]) /\ ~ShowsUserRating(im_log[k])) =>
            /\ im_log[k].outcome = "never_marked"
            /\ Range(im_log[k].steps) \cap {"open", "delete", "star", "confirm"} = {}

\* C14: in mark mode a row whose page shows a rating of the user is
\* classified already_marked and the rating button, the star and the
\* confirmation are not used; in unmark mode a row whose page shows no rating
\* of the user is classified never_marked and the delete button is not used.
C14_ExistingRatingCheck ==
    /\ C14_NeverMarked
    /\ \A k \in DOMAIN im_log :
          (~is_unmark /\ Inspected(im_log[k]) /\ ShowsUserRating(im_log[k])) =>
              /\ im_log[k].outcome = "already_marked"
              /\ Range(im_log[k].steps) \cap {"open", "delete", "star", "confirm"} = {}

\* ------------------------------------------------------------------------
\* The importer run twice
\* ------------------------------------------------------------------------

\* C15: when the second run in mark mode is over, every row the first run
\* classified success is classified already_marked by the second, and the
\* rating of its title on IMDb is the one the first run gave.
C15_SecondRunAlreadyMarked ==
    (run_no = 2 /\ im_pc = "done" /\ ~is_unmark) =>
        \A k \in DOMAIN first_log :
            first_log[k].outcome = "success" =>
                /\ LoggedAs(first_log[k].line, "already_marked") # {}
                /\ site[first_log[k].line]
                      = [rated |-> TRUE, value |-> first_log[k].movie_rate]

\* It holds for the rows whose page, at the second run, has lost the div
\* hero-rating-bar__user-rating.
C15_WhenRatingBarIsGone ==
    (run_no = 2 /\ im_pc = "done" /\ ~is_unmark) =>
        \A k \in DOMAIN first_log, j \in DOMAIN im_log :
            (/\ first_log[k].outcome = "success"
             /\ im_log[j].line = first_log[k].line
             /\ Inspected(im_log[j])
             /\ ~HasUserRating(im_log[j].page)) =>
                /\ im_log[j].outcome = "already_marked"
                /\ site[first_log[k].line]
                      = [rated |-> TRUE, value |-> first_log[k].movie_rate]

\* The second run rates again the row the first run rated.
C15_RatedTwice ==
    /\ run_no = 2 /\ im_pc = "done" /\ ~is_unmark
    /\ \E k \in DOMAIN first_log :
          /\ first_log[k].outcome = "success"
          /\ LoggedAs(first_log[k].line, "success") # {}
          /\ LoggedAs(first_log[k].line, "already_marked") = {}

\* ------------------------------------------------------------------------
\* The importer: the pause after a row
\* ------------------------------------------------------------------------

\* C16 as stated: the pause is taken after every row that ended as
\* not_found, already_marked, never_marked, success or error.
C16_PauseAfterEveryRow ==
    \A k \in DOMAIN im_log :
        im_log[k].outcome \in {"not_found", "already_marked", "never_marked", "success",
                               "error", "exception"}
            => im_log[k].slept

\* C16 amended: the pause is taken after the rows that ended as
\* already_marked, never_marked, success or error in the handlers of the
\* site part, and after no other row: not after a skipped row, a not_found
\* row, or a row whose processing raised to the outer handler.
C16_PauseAfterSiteRows ==
    \A k \in DOMAIN im_log :
        im_log[k].slept <=>
            im_log[k].outcome \in {"already_marked", "never_marked", "success", "error"}

\* A finished run of two rows: the first is not_found and no pause follows
\* it, the second is rated and the pause follows it.
C16_Witness ==
    /\ im_pc = "done"
    /\ Len(im_log) = 2
    /\ im_log[1].outcome = "not_found" /\ ~im_log[1].slept
    /\ im_log[2].outcome = "success" /\ im_log[2].slept

\* ------------------------------------------------------------------------
\* The importer: a failure does not end the batch
\* ------------------------------------------------------------------------

\* C17: the rows are started once each, in the order of the file, whatever
\* happened to the rows before: the k-th entry of the log is the k-th row,
\* the loop is at the row after the last entry, and the run is over (browser
\* closed, summary printed) only when every row has its entry.
C17_BatchGoesOn ==
    im_pc \in {"rows", "done"} =>
        /\ \A k \in DOMAIN im_log : im_log[k].line = k
        /\ Len(im_log) = line_no - 1
        /\ line_no <= Len(lines) + 1
        /\ im_pc = "done" => (Len(im_log) = Len(lines) /\ driver = "quit")

\* A finished run of two rows: the first raised to the outer handler, the
\* second failed at the star, and both are in error_movies.
C17_Witness ==
    /\ im_pc = "done"
    /\ Len(im_log) = 2
    /\ im_log[1].outcome = "exception"
    /\ im_log[2].outcome = "error"
    /\ error_movies = <<1, 2>>

\* ------------------------------------------------------------------------
\* The importer: the command line
\* ------------------------------------------------------------------------

\* The decimal text of an integer of -2..2.
DecimalText(n) == IF n < 0 THEN <<"-">> \o Str(0 - n) ELSE Str(n)

\* The argument is the decimal text of an integer of -2..2.
IsAdjustment == argv.some /\ \E n \in (0 - 2)..2 : argv.text = DecimalText(n)

IsUnmarkToken == argv.some /\ argv.text = <<"u", "n", "m", "a", "r", "k">>

\* C18: movie.csv being there, once the command line is read: without an
\* argument the run is in mark mode with the adjustment -1; with "unmark" it
\* is in unmark mode; with the decimal text of an integer n of -2..2 it is in
\* mark mode with the adjustment n; with any other argument the usage message
\* ends the run, the browser is not launched and no row is started.
C18_CommandLine ==
    (run_no = 1 /\ im_pc \notin {"main", "no_csv"}) =>
        /\ ~argv.some =>
              (im_pc \in {"rows", "done"} /\ ~is_unmark /\ rating_ajust = 0 - 1)
        /\ IsUnmarkToken => (im_pc \in {"rows", "done"} /\ is_unmark)
        /\ \A n \in (0 - 2)..2 :
              (argv.some /\ argv.text = DecimalText(n)) =>
                  (im_pc \in {"rows", "done"} /\ ~is_unmark /\ rating_ajust = n)
        /\ (argv.some /\ ~IsUnmarkToken /\ ~IsAdjustment) =>
              (im_pc = "usage" /\ driver = "none" /\ im_log = <<>> /\ line_no = 1)
        /\ im_pc \in {"rows", "done"} => driver # "none"

\* The argument 3 is refused: the usage message ends the run before the
\* browser is launched.
C18_Witness ==
    /\ im_pc = "usage"
    /\ argv = Some(<<"3">>)
    /\ driver = "none"
    /\ im_log = <<>>

\* ------------------------------------------------------------------------
\* The exporter process: the browser session is released
\* ------------------------------------------------------------------------

\* C19: when the process has ended and a browser session was created, the
\* session has been quit exactly once.
C19_GuaranteedRelease ==
    (main_pc = "exited" /\ sessions_created > 0) => sessions_quit = 1

\* The release holds for the ends that go through the try statement of
\* 873-902: export returned, raised or was interrupted.
C19_ReleasedAfterTry ==
    (main_pc = "exited" /\ exit_by \in {"normal", "exception", "interrupt"}) =>
        /\ sessions_created = 1
        /\ sessions_quit = 1
        /\ DRIVER = "None"

\* The user id is refused and the process ends with its browser open.
C19_LeftOpen ==
    /\ main_pc = "exited"
    /\ exit_by = "invalid_user"
    /\ sessions_created = 1
    /\ sessions_quit = 0
    /\ DRIVER = "visible"

\* ------------------------------------------------------------------------
\* Properties of handle_login_challenge
\* ------------------------------------------------------------------------
\* The handler has returned from a call that detected a challenge.
ChallengeHandled ==
    /\ hl_pc = "returned"
    /\ hl_page \cap {"abnormal_ip", "please_login"} # {}

\* The page was fetched again and still shows a challenge marker.
StillChallenged ==
    /\ "get" \in {hl_steps[i] : i \in DOMAIN hl_steps}
    /\ hl_page2 \cap {"abnormal_ip", "please_login"} # {}

Did(step) == step \in {hl_steps[i] : i \in DOMAIN hl_steps}

\* C21 as stated: after a detected challenge the handler returns True only if
\* the marker is absent from the page fetched again, and then the session
\* cookies have been saved before it returns; a recovery whose page still
\* shows the marker saves nothing and returns False instead of raising.
C21_SessionPersistence ==
    ChallengeHandled =>
        /\ hl_return = "True" =>
              /\ Did("get")
              /\ hl_page2 \cap {"abnormal_ip", "please_login"} = {}
              /\ Did("written")
              /\ cookie_file = "present"
        /\ StillChallenged =>
              /\ ~Did("save_cookies")
              /\ ~Did("written")
              /\ hl_return = "False"

\* C21 amended: on success save_cookies has been called before the return,
\* and the cookies are in the file when the write did not fail; a failed
\* write is only printed and the handler still returns True.
C21_SessionPersistenceAttempted ==
    ChallengeHandled =>
        /\ hl_return = "True" =>
              /\ Did("get")
              /\ hl_page2 \cap {"abnormal_ip", "please_login"} = {}
              /\ Did("save_cookies")
              /\ IS_LOGGED_IN
              /\ Did("written") => cookie_file = "present"
        /\ StillChallenged =>
              /\ ~Did("save_cookies")
              /\ ~Did("written")
              /\ hl_return = "False"
        /\ (Did("get_raises") \/ hl_steps = <<>>) => hl_return = "False"

\* C21 witness: the challenge is cleared by the login and the cookies are
\* written into a file that did not exist.
C21_Witness ==
    /\ ChallengeHandled
    /\ hl_return = "True"
    /\ hl_page2 = {"personal_page"}
    /\ hl_steps = <<"click", "input", "get", "save_cookies", "written">>
    /\ cookie_file = "present"

\* The challenge is cleared, the write of the cookies fails, and the handler
\* returns True with no cookie file.
C21_ClearedNotSaved ==
    /\ ChallengeHandled
    /\ hl_return = "True"
    /\ ~Did("written")
    /\ cookie_file = "absent"

\* ------------------------------------------------------------------------
\* The exporter process: its flags, its cookies and its browser
\* ------------------------------------------------------------------------
Logged(event) == {i \in DOMAIN main_log : main_log[i] = event}

\* The fetches of a page of the source site.
SourceFetches == Logged("fetch_people") \cup Logged("fetch_home") \cup Logged("export")

\* C22: with --no-cache the cookie file is neither read nor written at any
\* point of the run, a manual login and a challenge recovery included.
C22_NoCacheLeavesCookieFile ==
    args.no_cache => (Logged("cookies_read") = {} /\ Logged("cookies_written") = {})

\* The half of C22 that the test of line 878 gives: with --no-cache the
\* cookie file is never read.
C22_NoCacheNeverReads ==
    args.no_cache => Logged("cookies_read") = {}

\* Run with --no-cache; the cookie file is written by the manual login.
C22_WrittenWithoutCache ==
    /\ args.no_cache
    /\ args.manual_login
    /\ main_pc = "exited"
    /\ exit_by = "normal"
    /\ main_log = <<"session_visible", "fetch_people", "fetch_home", "prompt_manual",
                    "cookies_written", "export">>
    /\ cookie_file = "present"

\* C23: with --manual-login the operator is asked to log in by hand before
\* the export of the collection pages starts, with or without saved cookies.
C23_ManualLoginAlwaysAsked ==
    args.manual_login =>
        \A i \in Logged("export") : \E j \in Logged("prompt_manual") : j < i

\* What the elif of line 880 gives: the operator is asked when no saved
\* session was loaded.
C23_AskedUnlessCookiesLoaded ==
    (args.manual_login /\ (args.no_cache \/ Logged("cookies_read") = {})) =>
        \A i \in Logged("export") : \E j \in Logged("prompt_manual") : j < i

\* Run with --manual-login and a cookie file that logs in: the export starts
\* and the operator was never asked.
C23_NotAsked ==
    /\ args.manual_login
    /\ ~args.no_cache
    /\ Logged("cookies_read") # {}
    /\ Logged("export") # {}
    /\ Logged("prompt_manual") = {}

\* C24: the browser session is created at most once in a run, and without
\* --visible no visible session is ever created.
C24_OneHeadlessSession ==
    /\ sessions_created <= 1
    /\ ~args.visible => (DRIVER # "visible" /\ Logged("session_visible") = {})

\* The half of C24 that setup_driver's test of DRIVER gives.
C24_AtMostOneSession ==
    /\ sessions_created <= 1
    /\ Cardinality(Logged("session_visible") \cup Logged("session_headless")) <= 1

\* Run without --visible: the one session of the run is a visible one.
C24_VisibleWithoutFlag ==
    /\ ~args.visible
    /\ main_pc = "export"
    /\ DRIVER = "visible"
    /\ sessions_created = 1

\* C26: when caching is enabled and a cookie file exists at the start, the
\* cookies are loaded before the first fetch of a page of the source site.
C26_CookiesReadFirst ==
    (~args.no_cache /\ cookie_file = "present" /\ Logged("cookies_written") = {}) =>
        \A i \in SourceFetches : \E j \in Logged("cookies_read") : j < i

\* What lines 866-893 give: the cookies are read before the export of the
\* collection pages, after the fetch of the user's page.
C26_CookiesReadBeforeExport ==
    (~args.no_cache /\ cookie_file = "present" /\ Logged("cookies_written") = {}) =>
        /\ \A i \in Logged("export") : \E j \in Logged("cookies_read") : j < i
        /\ \A j \in Logged("cookies_read") : \E i \in Logged("fetch_people") : i < j

\* The user's page has been fetched and the cookie file has not been read.
C26_FetchedBeforeCookies ==
    /\ ~args.no_cache
    /\ cookie_file = "present"
    /\ main_pc = "setup"
    /\ main_log = <<"session_visible", "fetch_people">>

\* ------------------------------------------------------------------------
\* export: nothing is fetched once the cutoff is met
\* ------------------------------------------------------------------------
OverEvents == {i \in DOMAIN ex_log : ex_log[i] = "over"}

C27_LoginTerminates == <>(lg_pc \in {"returned", "raised"})

\* What the loop gives: login returns only on a logged-in address, and it
\* ends when the operator never leaves the first address (the wait is over)
\* or reaches a logged-in one.
C27_LoginEndsIfUnchangedOrLoggedIn ==
    /\ [](lg_pc = "returned" => (LoggedInUrl(lg_url) /\ lg_url # lg_current_url))
    /\ (lg_pc = "waiting" /\ lg_url = lg_current_url)
          ~> (lg_pc = "raised" \/ lg_url # lg_current_url)
    /\ (lg_pc \in {"waiting", "checking"} /\ LoggedInUrl(lg_url))
          ~> (lg_pc = "returned" \/ ~LoggedInUrl(lg_url))

\* The operator went to the form of the provider, once; the wait returned at
\* once and the address is no logged-in one: the loop goes round between
\* lines 87 and 92 until the address changes again.
C27_WaitingElsewhere ==
    /\ lg_pc = "checking"
    /\ lg_seen = <<"imdb_ap_signin">>
    /\ lg_url = "imdb_ap_signin"
    /\ lg_current_url = "imdb_signin"

====
